---- MODULE Spec2Model ----
(***************************************************************************)
(* Storage subsystem of Student-IMS: the run-length codec                  *)
(* (utils/compression.ts), the namespaced store (utils/storage.ts), the    *)
(* storage sanitizer (utils/fixStorage.ts) and the change log / shared     *)
(* snapshot bus (hooks/useRealtimeUpdates.ts) with its polling consumers   *)
(* (hooks/useStudentData.ts).                                              *)
(*                                                                         *)
(* Stored texts are sequences of character codes, so that the codec, the   *)
(* COMPRESSED: tag test and JSON parsing work on the characters the code   *)
(* works on.  Storage keys are strings.                                    *)
(***************************************************************************)
EXTENDS Integers, Sequences, FiniteSets, TLC

(***************************************************************************)
(* Characters                                                              *)
(***************************************************************************)

\* printable ASCII, codes 32..126, in code order (the backquote, which a
\* TLA+ string cannot hold, is written as its escape and never used)
AsciiTable ==
  << " ", "!", "\"", "#", "$", "%", "&", "'", "(", ")", "*", "+", ",", "-", ".", "/",
     "0", "1", "2", "3", "4", "5", "6", "7", "8", "9", ":", ";", "<", "=", ">", "?",
     "@", "A", "B", "C", "D", "E", "F", "G", "H", "I", "J", "K", "L", "M", "N", "O",
     "P", "Q", "R", "S", "T", "U", "V", "W", "X", "Y", "Z", "[", "\\", "]", "^", "_",
     "\\u0060", "a", "b", "c", "d", "e", "f", "g", "h", "i", "j", "k", "l", "m", "n", "o",
     "p", "q", "r", "s", "t", "u", "v", "w", "x", "y", "z", "{", "|", "}", "~" >>

\* the character code of a one-character string
Code(c) == 31 + (CHOOSE i \in 1..Len(AsciiTable) : AsciiTable[i] = c)

\* the code sequence of a string literal
S(str) == [i \in 1..Len(str) |-> Code(SubSeq(str, i, i))]

\* the string of a code sequence (used to build storage keys from ids)
RECURSIVE Str(_)
Str(cs) == IF cs = <<>> THEN "" ELSE AsciiTable[Head(cs) - 31] \o Str(Tail(cs))

NUL    == 0      \* the codec's sentinel character, code 0
QUOTE  == 34
COMMA  == 44
COLON  == 58
LBRACK == 91
BSLASH == 92
RBRACK == 93
LBRACE == 123
RBRACE == 125
ZERO   == 48
NINE   == 57

\* s.startsWith(p)
StartsWith(s, p) == Len(s) >= Len(p) /\ SubSeq(s, 1, Len(p)) = p

\* s.endsWith(p)
EndsWith(s, p) == Len(s) >= Len(p) /\ SubSeq(s, Len(s) - Len(p) + 1, Len(s)) = p

\* s.includes(p)
Includes(s, p) == \E i \in 1..(Len(s) - Len(p) + 1) : SubSeq(s, i, i + Len(p) - 1) = p

\* c.repeat(n)
Repeat(c, n) == [i \in 1..n |-> c]

(***************************************************************************)
(* JSON values and JSON.stringify / JSON.parse                             *)
(*                                                                         *)
(* A value is null, a non-negative integer, a string (code sequence        *)
(* without quote, backslash or control characters), an array, or an object *)
(* with ordered keys.  Undef is the JavaScript undefined, which can be a   *)
(* property value in memory and is dropped by JSON.stringify.              *)
(***************************************************************************)

Null      == [t |-> "null"]
Undef     == [t |-> "undef"]
Num(n)    == [t |-> "num", n |-> n]
StrV(s)   == [t |-> "str", s |-> s]
Arr(a)    == [t |-> "arr", a |-> a]
Obj(k, v) == [t |-> "obj", k |-> k, v |-> v]

\* index of property key in an object, 0 when absent
KeyIndex(o, key) ==
  IF \E i \in 1..Len(o.k) : o.k[i] = key
  THEN CHOOSE i \in 1..Len(o.k) : o.k[i] = key
  ELSE 0

\* o[key], Undef when absent
Prop(o, key) == IF KeyIndex(o, key) = 0 THEN Undef ELSE o.v[KeyIndex(o, key)]

\* o[key] = val (an existing key keeps its place, a new key goes last)
SetProp(o, key, val) ==
  IF KeyIndex(o, key) = 0
  THEN Obj(Append(o.k, key), Append(o.v, val))
  ELSE Obj(o.k, [o.v EXCEPT ![KeyIndex(o, key)] = val])

\* {...a, ...b}
RECURSIVE Spread(_, _)
Spread(a, b) ==
  IF b.k = <<>> THEN a
  ELSE Spread(SetProp(a, Head(b.k), Head(b.v)), Obj(Tail(b.k), Tail(b.v)))

\* decimal digits of a non-negative integer
RECURSIVE Digits(_)
Digits(n) == IF n < 10 THEN <<ZERO + n>> ELSE Digits(n \div 10) \o <<ZERO + (n % 10)>>

\* the text of the null literal
NULL_TEXT == S("null")

RECURSIVE Stringify(_), StringifyElems(_), StringifyMembers(_, _, _)
\* JSON.stringify(v) for a value the model represents
Stringify(v) ==
  CASE v.t = "null" -> NULL_TEXT
    [] v.t = "num"  -> Digits(v.n)
    [] v.t = "str"  -> <<QUOTE>> \o v.s \o <<QUOTE>>
    [] v.t = "arr"  -> <<LBRACK>> \o StringifyElems(v.a) \o <<RBRACK>>
    [] v.t = "obj"  -> <<LBRACE>> \o StringifyMembers(v.k, v.v, TRUE) \o <<RBRACE>>

\* array elements, undefined written as null
StringifyElems(a) ==
  IF a = <<>> THEN <<>>
  ELSE (IF Head(a).t = "undef" THEN NULL_TEXT ELSE Stringify(Head(a)))
       \o (IF Tail(a) = <<>> THEN <<>> ELSE <<COMMA>> \o StringifyElems(Tail(a)))

\* object members in insertion order, undefined-valued properties skipped
StringifyMembers(k, v, first) ==
  IF k = <<>> THEN <<>>
  ELSE IF Head(v).t = "undef" THEN StringifyMembers(Tail(k), Tail(v), first)
  ELSE (IF first THEN <<>> ELSE <<COMMA>>)
       \o <<QUOTE>> \o Head(k) \o <<QUOTE, COLON>> \o Stringify(Head(v))
       \o StringifyMembers(Tail(k), Tail(v), FALSE)

\* result of a failed parse
ParseFail == [ok |-> FALSE, val |-> Null, next |-> 0]
ParseOk(v, n) == [ok |-> TRUE, val |-> v, next |-> n]

\* a character that ends the scan of a string: the closing quote, a control
\* character or a backslash
StringStop(s, j) == s[j] = QUOTE \/ s[j] < 32 \/ s[j] = BSLASH

\* position of the closing quote of a string whose content starts at i, 0 if
\* the string is unterminated or holds a control character or a backslash
StringEnd(s, i) ==
  IF \E j \in i..Len(s) : StringStop(s, j)
  THEN LET j == CHOOSE j \in i..Len(s) : StringStop(s, j) /\ \A k \in i..(j - 1) : ~StringStop(s, k)
       IN  IF s[j] = QUOTE THEN j ELSE 0
  ELSE 0

\* position after the digits starting at i
RECURSIVE DigitsEnd(_, _)
DigitsEnd(s, i) ==
  IF i <= Len(s) /\ s[i] >= ZERO /\ s[i] <= NINE THEN DigitsEnd(s, i + 1) ELSE i

\* value of the digits s[i..j-1]
RECURSIVE DigitsValue(_, _, _)
DigitsValue(s, i, j) ==
  IF i >= j THEN 0 ELSE (s[j - 1] - ZERO) + 10 * DigitsValue(s, i, j - 1)

RECURSIVE ParseValue(_, _), ParseElems(_, _, _), ParseMembers(_, _, _)
\* the JSON value starting at position i of s
ParseValue(s, i) ==
  IF i > Len(s) THEN ParseFail
  ELSE IF s[i] = QUOTE THEN
    LET e == StringEnd(s, i + 1)
    IN  IF e = 0 THEN ParseFail ELSE ParseOk(StrV(SubSeq(s, i + 1, e - 1)), e + 1)
  ELSE IF s[i] >= ZERO /\ s[i] <= NINE THEN
    LET e == DigitsEnd(s, i)
    IN  IF s[i] = ZERO /\ e > i + 1 THEN ParseFail
        ELSE ParseOk(Num(DigitsValue(s, i, e)), e)
  ELSE IF i + 3 <= Len(s) /\ SubSeq(s, i, i + 3) = NULL_TEXT THEN ParseOk(Null, i + 4)
  ELSE IF s[i] = LBRACK THEN
    IF i + 1 <= Len(s) /\ s[i + 1] = RBRACK THEN ParseOk(Arr(<<>>), i + 2)
    ELSE ParseElems(s, i + 1, <<>>)
  ELSE IF s[i] = LBRACE THEN
    IF i + 1 <= Len(s) /\ s[i + 1] = RBRACE THEN ParseOk(Obj(<<>>, <<>>), i + 2)
    ELSE ParseMembers(s, i + 1, Obj(<<>>, <<>>))
  ELSE ParseFail

\* array elements from position i on, acc the elements read so far
ParseElems(s, i, acc) ==
  LET r == ParseValue(s, i)
  IN  IF ~r.ok \/ r.next > Len(s) THEN ParseFail
      ELSE IF s[r.next] = RBRACK THEN ParseOk(Arr(Append(acc, r.val)), r.next + 1)
      ELSE IF s[r.next] = COMMA THEN ParseElems(s, r.next + 1, Append(acc, r.val))
      ELSE ParseFail

\* object members from position i on, acc the object read so far
ParseMembers(s, i, acc) ==
  IF i > Len(s) \/ s[i] # QUOTE THEN ParseFail
  ELSE
    LET e == StringEnd(s, i + 1)
    IN  IF e = 0 \/ e + 1 > Len(s) \/ s[e + 1] # COLON THEN ParseFail
        ELSE
          LET r == ParseValue(s, e + 2)
              o == SetProp(acc, SubSeq(s, i + 1, e - 1), r.val)
          IN  IF ~r.ok \/ r.next > Len(s) THEN ParseFail
              ELSE IF s[r.next] = RBRACE THEN ParseOk(o, r.next + 1)
              ELSE IF s[r.next] = COMMA THEN ParseMembers(s, r.next + 1, o)
              ELSE ParseFail

\* the outcome of JSON.parse when r is the value read from the start of a
\* text of n characters: the value must end where the text ends
WholeText(r, n) ==
  IF r.ok /\ r.next = n + 1 THEN [ok |-> TRUE, val |-> r.val]
  ELSE [ok |-> FALSE, val |-> Null]

\* JSON.parse(s): ok is FALSE where JSON.parse throws
JSONParse(s) == WholeText(ParseValue(s, 1), Len(s))

(***************************************************************************)
(* Codec (utils/compression.ts)                                            *)
(***************************************************************************)

RECURSIVE processDataForCompression(_), ProcessElems(_)
\* deep copy of the data; a long 'data' string is copied as it is
processDataForCompression(data) ==
  CASE data.t = "arr" -> Arr(ProcessElems(data.a))
    [] data.t = "obj" -> Obj(data.k, ProcessElems(data.v))
    [] OTHER -> data

ProcessElems(a) ==
  IF a = <<>> THEN <<>>
  ELSE <<processDataForCompression(Head(a))>> \o ProcessElems(Tail(a))

\* EmitGroup with the run length stored as an offset from one
EmitGroupOffset(count, currentChar) ==
  IF count > 3 THEN <<NUL, count - 1, currentChar>> ELSE Repeat(currentChar, count)

\* EmitGroup that also shortens a run of three
EmitGroupFromThree(count, currentChar) ==
  IF count > 2 THEN <<NUL, count, currentChar>> ELSE Repeat(currentChar, count)

\* one group of the run-length output: count repeats of currentChar
EmitGroup(count, currentChar) ==
  IF count > 3 THEN <<NUL, count, currentChar>> ELSE Repeat(currentChar, count)

\* CompressStep that counts a run without a limit
CompressStepUncapped(jsonString, st) ==
  IF jsonString[st.i] = st.currentChar
  THEN [st EXCEPT !.i = @ + 1, !.count = @ + 1]
  ELSE [i |-> st.i + 1, count |-> 1, currentChar |-> jsonString[st.i],
        compressed |-> st.compressed \o EmitGroup(st.count, st.currentChar)]

\* one pass through the body of compressData's for loop; st holds the loop
\* variables i (1-based), count, currentChar and compressed
CompressStep(jsonString, st) ==
  IF jsonString[st.i] = st.currentChar /\ st.count < 255
  THEN [st EXCEPT !.i = @ + 1, !.count = @ + 1]
  ELSE [i |-> st.i + 1, count |-> 1, currentChar |-> jsonString[st.i],
        compressed |-> st.compressed \o EmitGroup(st.count, st.currentChar)]

\* n passes through the loop body: the first half of the passes, then the
\* rest from the loop variables they leave (i is always positive; the test
\* has the first half evaluated before the rest starts)
RECURSIVE CompressLoop(_, _, _)
CompressLoop(jsonString, st, n) ==
  IF n <= 0 THEN st
  ELSE IF n = 1 THEN CompressStep(jsonString, st)
  ELSE LET half == CompressLoop(jsonString, st, n \div 2)
       IN  IF half.i > 0 THEN CompressLoop(jsonString, half, n - (n \div 2)) ELSE half

\* the output once the loop has ended: the last group is added
LastGroup(st) == st.compressed \o EmitGroup(st.count, st.currentChar)

\* the run-length encoding of jsonString: the loop runs from the second
\* character to the last
CompressText(jsonString) ==
  LastGroup(CompressLoop(jsonString,
                         [i |-> 2, count |-> 1, currentChar |-> jsonString[1], compressed |-> <<>>],
                         Len(jsonString) - 1))

\* compressData(data): run-length encoding of the JSON text of data
compressData(data) == CompressText(Stringify(processDataForCompression(data)))

\* DecompressStep that needs a character after the group to expand it
DecompressStepShort(compressed, st) ==
  IF st.i > Len(compressed) THEN st
  ELSE IF compressed[st.i] = NUL /\ st.i + 2 < Len(compressed)
  THEN [i |-> st.i + 3,
        decompressed |-> st.decompressed \o Repeat(compressed[st.i + 2], compressed[st.i + 1])]
  ELSE [i |-> st.i + 1, decompressed |-> st.decompressed \o <<compressed[st.i]>>]

\* one pass through the body of decompressData's while loop (none once the
\* loop has ended); st holds the loop variables i (1-based) and decompressed
DecompressStep(compressed, st) ==
  IF st.i > Len(compressed) THEN st
  ELSE IF compressed[st.i] = NUL /\ st.i + 2 <= Len(compressed)
       THEN [i |-> st.i + 3,
             decompressed |-> st.decompressed \o Repeat(compressed[st.i + 2], compressed[st.i + 1])]
       ELSE [i |-> st.i + 1, decompressed |-> st.decompressed \o <<compressed[st.i]>>]

\* n passes through the loop body, split as in CompressLoop
RECURSIVE DecompressLoop(_, _, _)
DecompressLoop(compressed, st, n) ==
  IF n <= 0 THEN st
  ELSE IF n = 1 THEN DecompressStep(compressed, st)
  ELSE LET half == DecompressLoop(compressed, st, n \div 2)
       IN  IF half.i > 0 THEN DecompressLoop(compressed, half, n - (n \div 2)) ELSE half

\* the expansion decompressData's while loop builds; the loop ends within
\* Len(compressed) passes
Expand(compressed) ==
  DecompressLoop(compressed, [i |-> 1, decompressed |-> <<>>], Len(compressed)).decompressed

\* the result of a call that threw
Threw == [t |-> "threw"]

\* FirstParsed that lets the second parse error out to the caller
FirstParsedThrowing(first, second) ==
  IF first.ok THEN first.val ELSE IF second.ok THEN second.val ELSE Threw

\* what decompressData returns when JSON.parse of the expansion gives first
\* and JSON.parse of the input gives second
FirstParsed(first, second) ==
  IF first.ok THEN first.val
  ELSE IF second.ok THEN second.val
  ELSE Null

\* decompressData(compressed): never throws; the expansion parsed as JSON,
\* else the input parsed as JSON, else null
decompressData(compressed) == FirstParsed(JSONParse(Expand(compressed)), JSONParse(compressed))

(***************************************************************************)
(* Namespaced store (utils/storage.ts) over the host's localStorage        *)
(*                                                                         *)
(* A storage area ls is a function from the keys it holds to their texts.  *)
(***************************************************************************)

\* the maximum-size configuration, scaled down from 5 MB so that both the
\* plain and the compressed branch of setStorageItem are taken
MAX_STORAGE_SIZE == 32

\* the literal tag 'COMPRESSED:'
COMPRESSED_PREFIX == S("COMPRESSED:")

\* FullKey without the owner prefix
FullKeyShared(key, userId) == "_" \o key

\* `${userId}_${key}`
FullKey(key, userId) == userId \o "_" \o key

\* localStorage.removeItem(fullKey)
RemoveItem(ls, fullKey) == [k \in (DOMAIN ls) \ {fullKey} |-> ls[k]]

\* localStorage.setItem(fullKey, text) when it succeeds
SetItem(ls, fullKey, text) == [k \in (DOMAIN ls) \cup {fullKey} |-> IF k = fullKey THEN text ELSE ls[k]]

\* !item of getStorageItem: the key is absent (getItem gives null) or its text is empty
NoItem(ls, fullKey) == fullKey \notin DOMAIN ls \/ ls[fullKey] = <<>>

\* ParsedItem that keeps the text it failed to parse
ParsedItemKeeping(parsed, ls, fullKey, defaultValue) ==
  IF parsed.ok
  THEN [ret |-> parsed.val, ls |-> ls, path |-> "plain"]
  ELSE [ret |-> defaultValue, ls |-> ls, path |-> "catch"]

\* the untagged branch of getStorageItem, parsed being what JSON.parse(item)
\* gives: the parsed value, or in the catch block the removal of the key and
\* the default value
ParsedItem(parsed, ls, fullKey, defaultValue) ==
  IF parsed.ok
  THEN [ret |-> parsed.val, ls |-> ls, path |-> "plain"]
  ELSE [ret |-> defaultValue, ls |-> RemoveItem(ls, fullKey), path |-> "catch"]

\* the text after the COMPRESSED: tag
Payload(item) == SubSeq(item, Len(COMPRESSED_PREFIX) + 1, Len(item))

\* getStorageItem(key, userId, defaultValue): the value returned (ret) and the
\* storage it leaves (ls); path tells the branch taken
getStorageItem(ls, key, userId, defaultValue) ==
  IF NoItem(ls, FullKey(key, userId))
  THEN [ret |-> defaultValue, ls |-> ls, path |-> "none"]
  ELSE IF StartsWith(ls[FullKey(key, userId)], COMPRESSED_PREFIX)
  THEN [ret |-> decompressData(Payload(ls[FullKey(key, userId)])), ls |-> ls, path |-> "compressed"]
  ELSE ParsedItem(JSONParse(ls[FullKey(key, userId)]), ls, FullKey(key, userId), defaultValue)

\* Serialized that compresses from half the maximum size on
SerializedFromHalf(value, serialized) ==
  IF 2 * Len(serialized) >= MAX_STORAGE_SIZE
  THEN COMPRESSED_PREFIX \o compressData(value)
  ELSE serialized

\* the text for value whose JSON text is serialized: compressed and tagged
\* when serialized is longer than half the maximum size
Serialized(value, serialized) ==
  IF 2 * Len(serialized) > MAX_STORAGE_SIZE
  THEN COMPRESSED_PREFIX \o compressData(value)
  ELSE serialized

\* the text setStorageItem hands to localStorage.setItem
StoredText(value) == Serialized(value, Stringify(value))

NaN == -1

\* parseInt(text): the leading decimal digits, NaN when there is none
ParseInt(text) ==
  IF DigitsEnd(text, 1) = 1 THEN NaN ELSE DigitsValue(text, 1, DigitsEnd(text, 1))

\* parseInt(localStorage.getItem(`${k}_timestamp`) || '0')
TimeOf(ls, k) ==
  IF NoItem(ls, k \o "_timestamp") THEN 0 ELSE ParseInt(ls[k \o "_timestamp"])

\* CompareKeys that puts the newest key last
CompareKeysNewestLast(ls, a, b) ==
  IF TimeOf(ls, a) = NaN \/ TimeOf(ls, b) = NaN THEN 0 ELSE TimeOf(ls, a) - TimeOf(ls, b)

\* the comparator of clearOldData: parseInt(timeB) - parseInt(timeA), a NaN
\* result ordering nothing
CompareKeys(ls, a, b) ==
  IF TimeOf(ls, a) = NaN \/ TimeOf(ls, b) = NaN THEN 0 ELSE TimeOf(ls, b) - TimeOf(ls, a)

\* stable insertion of key k into the sorted sequence
RECURSIVE InsertSorted(_, _, _)
InsertSorted(ls, sorted, k) ==
  IF sorted = <<>> THEN <<k>>
  ELSE IF CompareKeys(ls, Head(sorted), k) <= 0
       THEN <<Head(sorted)>> \o InsertSorted(ls, Tail(sorted), k)
       ELSE <<k>> \o sorted

\* keys.sort(comparator), stable
RECURSIVE SortKeys(_, _)
SortKeys(ls, keys) ==
  IF keys = <<>> THEN <<>>
  ELSE InsertSorted(ls, SortKeys(ls, SubSeq(keys, 1, Len(keys) - 1)), keys[Len(keys)])

\* removal of each key of the sequence and of its _timestamp entry
RECURSIVE RemoveAll(_, _)
RemoveAll(ls, keys) ==
  IF keys = <<>> THEN ls
  ELSE RemoveAll(RemoveItem(RemoveItem(ls, Head(keys)), Head(keys) \o "_timestamp"), Tail(keys))

\* the keys of the storage that start with `${userId}_`
UserKeys(ls, userId) == {k \in DOMAIN ls : StartsWith(k, userId \o "_")}

\* the orders in which Object.keys may list a set of keys
KeyOrders(keys) ==
  {o \in [1..Cardinality(keys) -> keys] : \A i, j \in 1..Cardinality(keys) : o[i] = o[j] => i = j}

\* Math.ceil(n * 0.25)
ItemsToRemove(n) == (n + 3) \div 4

\* clearOldData(userId), the owner's keys listed in the order keys
clearOldData(ls, keys) ==
  LET sortedKeys == SortKeys(ls, keys)
      itemsToRemove == ItemsToRemove(Len(sortedKeys))
  IN  RemoveAll(ls, SubSeq(sortedKeys, Len(sortedKeys) - itemsToRemove + 1, Len(sortedKeys)))

\* the storages clearOldData(userId) may leave, one for each order in which
\* Object.keys lists the owner's keys
ClearOldDataResults(ls, userId) == {clearOldData(ls, keys) : keys \in KeyOrders(UserKeys(ls, userId))}

\* outcomes of one localStorage.setItem call: it stores the text, throws
\* QuotaExceededError, or throws another error
WriteOutcomes == {"ok", "quota", "error"}

\* WriteText that evicts and retries after any failed write
WriteTextRetryAny(ls, fullKey, text, first, second, evicted) ==
  IF first = "ok"
  THEN [ls |-> SetItem(ls, fullKey, text), attempts |-> 1, evictions |-> 0, written |-> TRUE]
  ELSE IF second = "ok"
       THEN [ls |-> SetItem(evicted, fullKey, text), attempts |-> 2, evictions |-> 1, written |-> TRUE]
       ELSE [ls |-> evicted, attempts |-> 2, evictions |-> 1, written |-> FALSE]

\* the try/catch of setStorageItem around localStorage.setItem(fullKey, text):
\* the first attempt ends as first and the retry, if made, as second; evicted
\* is the storage that clearOldData leaves.  attempts counts the setItem
\* calls, evictions the clearOldData calls, written tells whether the text
\* was stored.
WriteText(ls, fullKey, text, first, second, evicted) ==
  IF first = "ok"
  THEN [ls |-> SetItem(ls, fullKey, text), attempts |-> 1, evictions |-> 0, written |-> TRUE]
  ELSE IF first = "quota"
  THEN IF second = "ok"
       THEN [ls |-> SetItem(evicted, fullKey, text), attempts |-> 2, evictions |-> 1, written |-> TRUE]
       ELSE [ls |-> evicted, attempts |-> 2, evictions |-> 1, written |-> FALSE]
  ELSE [ls |-> ls, attempts |-> 1, evictions |-> 0, written |-> FALSE]

\* setStorageItem(key, userId, value)
setStorageItem(ls, key, userId, value, first, second, evicted) ==
  WriteText(ls, FullKey(key, userId), StoredText(value), first, second, evicted)

\* removeStorageItem(key, userId)
removeStorageItem(ls, key, userId) == RemoveItem(ls, FullKey(key, userId))

\* hasStorageItem(key, userId)
hasStorageItem(ls, key, userId) == FullKey(key, userId) \in DOMAIN ls

\* clearUserStorage that clears the whole storage area
clearUserStorageAll(ls, userId) == <<>>

\* clearUserStorage(userId): every key that starts with `${userId}_` is removed
clearUserStorage(ls, userId) ==
  [k \in {key \in DOMAIN ls : ~StartsWith(key, userId \o "_")} |-> ls[k]]

(***************************************************************************)
(* Storage sanitizer (utils/fixStorage.ts)                                 *)
(***************************************************************************)

\* IsCorrupted that also counts a tagged value as corrupted
IsCorruptedTagged(ls, key) ==
  /\ ls[key] # <<>>
  /\ (StartsWith(ls[key], COMPRESSED_PREFIX) \/ ~JSONParse(ls[key]).ok)

\* the callback of keys.some: the value is non-empty, untagged and not JSON
IsCorrupted(ls, key) ==
  /\ ls[key] # <<>>
  /\ ~StartsWith(ls[key], COMPRESSED_PREFIX)
  /\ ~JSONParse(ls[key]).ok

hasCorruptedData(ls) == \E key \in DOMAIN ls : IsCorrupted(ls, key)

\* IsImportantKey with the exact names only
IsImportantKeyExact(ls, key) ==
  \/ key = "currentUser"
  \/ key = "isLoggedIn"
  \/ key = "authToken"
  \/ key = "USERS_COLLECTION_KEY"
  \/ StartsWith(ls[key], COMPRESSED_PREFIX)

\* IsImportantKey without the rule for tagged values
IsImportantKeyByName(ls, key) ==
  \/ key = "currentUser"
  \/ key = "isLoggedIn"
  \/ key = "authToken"
  \/ key = "USERS_COLLECTION_KEY"
  \/ Includes(key, "_current_user")
  \/ Includes(key, "_users")
  \/ Includes(key, "_student_")
  \/ Includes(key, "_certificates")
  \/ Includes(key, "_disability_id")

\* the callback of keys.filter that selects the keys to preserve
IsImportantKey(ls, key) ==
  \/ key = "currentUser"
  \/ key = "isLoggedIn"
  \/ key = "authToken"
  \/ key = "USERS_COLLECTION_KEY"
  \/ Includes(key, "_current_user")
  \/ Includes(key, "_users")
  \/ Includes(key, "_student_")
  \/ Includes(key, "_certificates")
  \/ Includes(key, "_disability_id")
  \/ StartsWith(ls[key], COMPRESSED_PREFIX)

importantKeys(ls) == {key \in DOMAIN ls : IsImportantKey(ls, key)}

\* Backup that loses the last character of each value
BackupTruncated(ls) ==
  [key \in {k \in importantKeys(ls) : ls[k] # <<>>} |-> SubSeq(ls[key], 1, Len(ls[key]) - 1)]

\* the backup: the important keys whose value is non-empty
Backup(ls) == [key \in {k \in importantKeys(ls) : ls[k] # <<>>} |-> ls[key]]

\* fixStorageIssues(): the storage it leaves.  The restore writes a subset of
\* what the cleared storage held, so no restore write exceeds the quota.
fixStorageIssues(ls) == IF hasCorruptedData(ls) THEN Backup(ls) ELSE ls

(***************************************************************************)
(* The storage layer over a host storage whose calls can throw: the        *)
(* try/catch blocks of utils/storage.ts and utils/fixStorage.ts            *)
(***************************************************************************)

\* the calls of the host storage that may throw, setItem for a reason other
\* than the quota
Primitives == {"getItem", "setItem", "removeItem", "keys", "clear"}

\* a block that ended normally with ret, and one that threw an error of this name
Ok(ls, ret) == [threw |-> FALSE, ls |-> ls, ret |-> ret]
Throw(ls, name) == [threw |-> TRUE, ls |-> ls, ret |-> name]

\* try { body } catch (e) { Handler(e) }
TryCatch(body, Handler(_)) == IF body.threw THEN Handler(body) ELSE body

\* body; Rest(what body gave)
Then(body, Rest(_)) == IF body.threw THEN body ELSE Rest(body)

\* localStorage.getItem(k): null or the text
GetItem(ls, k, broken) ==
  IF "getItem" \in broken THEN Throw(ls, "SecurityError")
  ELSE Ok(ls, IF k \in DOMAIN ls THEN StrV(ls[k]) ELSE Null)

\* localStorage.removeItem(k)
RemoveItemOr(ls, k, broken) ==
  IF "removeItem" \in broken THEN Throw(ls, "SecurityError") ELSE Ok(RemoveItem(ls, k), Undef)

\* localStorage.setItem(k, text) that ends as outcome
SetItemOr(ls, k, text, outcome, broken) ==
  IF "setItem" \in broken THEN Throw(ls, "SecurityError")
  ELSE IF outcome = "ok" THEN Ok(SetItem(ls, k, text), Undef)
  ELSE IF outcome = "quota" THEN Throw(ls, "QuotaExceededError")
  ELSE Throw(ls, "Error")

\* Object.keys(localStorage), localStorage.length and localStorage.key(i):
\* the keys in the order the host lists them
ObjectKeys(ls, keys, broken) ==
  IF "keys" \in broken THEN Throw(ls, "SecurityError") ELSE Ok(ls, keys)

\* localStorage.clear()
ClearOr(ls, broken) ==
  IF "clear" \in broken THEN Throw(ls, "SecurityError") ELSE Ok(<<>>, Undef)

\* the try block of getStorageItem once getItem has returned, r being what
\* getStorageItem gives on a host that does not throw: JSON.parse threw
\* where r took the catch branch
ReadOr(r, ls) == IF r.path = "catch" THEN Throw(ls, "SyntaxError") ELSE Ok(ls, r.ret)

\* GetCatch without the try around removeItem
GetCatchUnguarded(e, fullKey, defaultValue, broken) ==
  Then(RemoveItemOr(e.ls, fullKey, broken), LAMBDA r : Ok(r.ls, defaultValue))

\* the catch block of getStorageItem
GetCatch(e, fullKey, defaultValue, broken) ==
  Then(TryCatch(RemoveItemOr(e.ls, fullKey, broken), LAMBDA e2 : Ok(e2.ls, Undef)),
       LAMBDA r : Ok(r.ls, defaultValue))

\* getStorageItem(key, userId, defaultValue) on a host whose calls in broken throw
getStorageItemTry(ls, key, userId, defaultValue, broken) ==
  TryCatch(Then(GetItem(ls, FullKey(key, userId), broken),
                LAMBDA g : ReadOr(getStorageItem(ls, key, userId, defaultValue), ls)),
           LAMBDA e : GetCatch(e, FullKey(key, userId), defaultValue, broken))

\* the forEach of clearOldData: each removal in its own try
RemoveEach(ls, keys, broken) == IF "removeItem" \in broken THEN ls ELSE RemoveAll(ls, keys)

\* clearOldData(userId), keys being the owner's keys as Object.keys lists
\* them; a getItem that throws makes the comparator return 0 for every pair
clearOldDataTry(ls, keys, broken) ==
  TryCatch(Then(ObjectKeys(ls, keys, broken), LAMBDA k :
             LET sortedKeys == IF "getItem" \in broken THEN k.ret ELSE SortKeys(ls, k.ret)
                 itemsToRemove == ItemsToRemove(Len(sortedKeys))
             IN  Ok(RemoveEach(ls, SubSeq(sortedKeys, Len(sortedKeys) - itemsToRemove + 1,
                                          Len(sortedKeys)), broken), Undef)),
           LAMBDA e : Ok(e.ls, Undef))

\* setStorageItem from its first setItem call on, text being the text to
\* store and keys the owner's keys as Object.keys lists them
WriteTextTry(ls, fullKey, text, first, second, keys, broken) ==
  TryCatch(SetItemOr(ls, fullKey, text, first, broken), LAMBDA e :
    IF e.ret = "QuotaExceededError"
    THEN TryCatch(SetItemOr(clearOldDataTry(e.ls, keys, broken).ls, fullKey, text, second, broken),
                  LAMBDA e2 : Ok(e2.ls, Undef))
    ELSE Ok(e.ls, Undef))

\* setStorageItem(key, userId, value)
setStorageItemTry(ls, key, userId, value, first, second, keys, broken) ==
  WriteTextTry(ls, FullKey(key, userId), StoredText(value), first, second, keys, broken)

\* removeStorageItem(key, userId)
removeStorageItemTry(ls, key, userId, broken) ==
  TryCatch(RemoveItemOr(ls, FullKey(key, userId), broken), LAMBDA e : Ok(e.ls, Undef))

\* hasStorageItem(key, userId)
hasStorageItemTry(ls, key, userId, broken) ==
  TryCatch(Then(GetItem(ls, FullKey(key, userId), broken),
                LAMBDA g : Ok(ls, [t |-> "bool", b |-> g.ret # Null])),
           LAMBDA e : Ok(e.ls, [t |-> "bool", b |-> FALSE]))

\* clearUserStorage(userId): the first removeItem that throws ends the forEach
clearUserStorageTry(ls, userId, broken) ==
  TryCatch(Then(ObjectKeys(ls, <<>>, broken), LAMBDA k :
             IF UserKeys(ls, userId) # {} /\ "removeItem" \in broken
             THEN Throw(ls, "SecurityError")
             ELSE Ok(clearUserStorage(ls, userId), Undef)),
           LAMBDA e : Ok(e.ls, Undef))

\* s.replace(p, ''): the first occurrence of p removed
RemoveFirst(s, p) ==
  IF Includes(s, p)
  THEN LET i == CHOOSE i \in 1..(Len(s) - Len(p) + 1) :
                  /\ SubSeq(s, i, i + Len(p) - 1) = p
                  /\ \A j \in 1..(i - 1) : SubSeq(s, j, j + Len(p) - 1) # p
       IN  SubSeq(s, 1, i - 1) \o SubSeq(s, i + Len(p), Len(s))
  ELSE s

\* what getAllUserData puts under the base key of a text, parsed being what
\* JSON.parse gives for it
DumpValue(text, parsed) ==
  IF text = <<>> THEN Null
  ELSE IF StartsWith(text, COMPRESSED_PREFIX) THEN decompressData(Payload(text))
  ELSE IF parsed.ok THEN parsed.val
  ELSE StrV(S("Corrupted data"))

\* the userData object getAllUserData builds from these keys
RECURSIVE DumpEntries(_, _, _)
DumpEntries(ls, keys, userId) ==
  IF keys = <<>> THEN Obj(<<>>, <<>>)
  ELSE SetProp(DumpEntries(ls, SubSeq(keys, 1, Len(keys) - 1), userId),
               S(RemoveFirst(keys[Len(keys)], "_" \o userId)),
               DumpValue(ls[keys[Len(keys)]], JSONParse(ls[keys[Len(keys)]])))

\* the keys of the storage that end with `_${userId}`
DumpKeys(ls, userId) == {k \in DOMAIN ls : EndsWith(k, "_" \o userId)}

\* getAllUserData(userId), keys being the keys that end with the user's id in
\* the order localStorage.key gives them
getAllUserData(ls, keys, userId, broken) ==
  TryCatch(Then(ObjectKeys(ls, keys, broken), LAMBDA k :
             IF k.ret # <<>> /\ "getItem" \in broken
             THEN Throw(ls, "SecurityError")
             ELSE Ok(ls, DumpEntries(ls, k.ret, userId))),
           LAMBDA e : Ok(e.ls, Obj(<<>>, <<>>)))

\* the restore loop of fixStorageIssues: each setItem in its own try
Restore(backup, broken) == IF "setItem" \in broken THEN <<>> ELSE backup

\* fixStorageIssues(): with a getItem that throws, the callback of keys.some
\* catches and calls every key corrupted, and the first getItem outside that
\* callback ends the outer try
fixStorageIssuesTry(ls, broken) ==
  TryCatch(Then(ObjectKeys(ls, <<>>, broken), LAMBDA k :
             IF "getItem" \in broken
             THEN (IF DOMAIN ls = {} THEN Ok(ls, [t |-> "bool", b |-> TRUE])
                   ELSE Throw(ls, "SecurityError"))
             ELSE IF ~hasCorruptedData(ls) THEN Ok(ls, [t |-> "bool", b |-> TRUE])
             ELSE Then(ClearOr(ls, broken),
                       LAMBDA c : Ok(Restore(Backup(ls), broken), [t |-> "bool", b |-> TRUE]))),
           LAMBDA e : Ok(e.ls, [t |-> "bool", b |-> FALSE]))

(***************************************************************************)
(* State                                                                   *)
(***************************************************************************)

VARIABLES
  localStorage,   \* the host's storage area: key -> text
  last,           \* the last operation: its arguments, what it found and returned
  user,           \* the AuthContext user: NoUser or the id of the logged-in user
  now,            \* the reading of Date.now()
  mounted,        \* consumer -> whether the hook instance is mounted
  updates,        \* consumer -> the updates state of its useRealtimeUpdates
  lastUpdate,     \* consumer -> the lastUpdate state of its useRealtimeUpdates
  students,       \* consumer -> the students state of its useStudentData
  teachers,       \* consumer -> the teachers state of its useStudentData
  savePending,    \* consumer -> its updates changed and the save effect has not run yet
  refreshPending, \* consumer -> forceRefresh was called and the load effect has not run yet
  ran,            \* the mount effects of the application that have run, in order
  intervals       \* consumer -> the number of live intervals of its periodic update check

storeVars == <<localStorage, last>>
busVars == <<user, now, mounted, updates, lastUpdate, students, teachers, savePending, refreshPending,
             ran, intervals>>
vars == <<localStorage, last, user, now, mounted, updates, lastUpdate, students, teachers,
          savePending, refreshPending, ran, intervals>>

\* the value of a boolean result
Bool(b) == [t |-> "bool", b |-> b]

\* the result of a call that threw, or of a promise that was rejected
Rejected == [t |-> "rejected"]

\* the user state of a logged-out AuthContext
NoUser == ""

\* the hook instances: components that use useStudentData
Consumers == {"c1", "c2"}

\* the components of App that have a mount effect, and the one rendered
\* inside each: <AuthProvider><AppWithRoutes /></AuthProvider>
Root == "AuthProvider"
Children(component) == IF component = "AuthProvider" THEN <<"AppWithRoutes">> ELSE <<>>

\* the mount effect of a component
MountEffect(component) ==
  IF component = "AuthProvider" THEN "checkInitialUser" ELSE "fixStorageIssues"

\* MountEffects with the effect of a component before those of its children
RECURSIVE MountEffectsParentFirst(_)
MountEffectsParentFirst(component) ==
  LET RECURSIVE Of(_)
      Of(cs) == IF cs = <<>> THEN <<>> ELSE MountEffectsParentFirst(Head(cs)) \o Of(Tail(cs))
  IN  <<MountEffect(component)>> \o Of(Children(component))

\* the order in which React runs the mount effects of a subtree: those of
\* the children, then the component's own
RECURSIVE MountEffects(_)
MountEffects(component) ==
  LET RECURSIVE Of(_)
      Of(cs) == IF cs = <<>> THEN <<>> ELSE MountEffects(Head(cs)) \o Of(Tail(cs))
  IN  Of(Children(component)) \o <<MountEffect(component)>>

\* every mount effect of the application has run
Started == ran = MountEffects(Root)

\* no user, no consumer: the state of the bus while only the store is used
BusIdle ==
  /\ Started
  /\ user = NoUser
  /\ now = 0
  /\ mounted = [c \in Consumers |-> FALSE]
  /\ updates = [c \in Consumers |-> Arr(<<>>)]
  /\ lastUpdate = [c \in Consumers |-> 0]
  /\ students = [c \in Consumers |-> Arr(<<>>)]
  /\ teachers = [c \in Consumers |-> Arr(<<>>)]
  /\ savePending = [c \in Consumers |-> FALSE]
  /\ refreshPending = [c \in Consumers |-> FALSE]
  /\ intervals = [c \in Consumers |-> 0]

\* the record of an operation that has no result of its own
NoOp == [op |-> "none", key |-> "", userId |-> "", value |-> Null, ret |-> Null,
         present |-> FALSE, item |-> <<>>, attempts |-> 0, evictions |-> 0,
         first |-> "ok", second |-> "ok", written |-> FALSE, consumer |-> "", time |-> 0,
         type |-> "", action |-> "", threw |-> FALSE, broken |-> {}, id |-> Null]

(***************************************************************************)
(* The store and the sanitizer driven by a caller                          *)
(***************************************************************************)

\* user identifiers and logical keys the caller uses
UserIds == {"u1", "u2"}
LogicalKeys == {"x", "students"}

NameLong  == Obj(<<S("name")>>, <<StrV(S("AAAAAAAAAA"))>>)
NameShort == Obj(<<S("name")>>, <<StrV(S("AB"))>>)

\* the values the caller stores: one above and one below the compression threshold
StoreValues == {NameLong, NameShort}

\* the fallback the caller passes to getStorageItem
Fallback == StrV(S("fallback"))

\* texts found in the storage at start that the store did not write: garbage,
\* a tagged text that does not decode, the empty text
Garbage       == S("oops")
TaggedGarbage == COMPRESSED_PREFIX \o <<NUL, 5>>
BadTexts == {Garbage, TaggedGarbage, <<>>}

\* the texts a key may hold at start
InitTexts(k) ==
  IF EndsWith(k, "_timestamp") THEN {S("7")}
  ELSE BadTexts \cup {StoredText(NameShort), StoredText(NameLong)}

\* at most this many keys are in the storage at start
MaxInitKeys == 2

\* the storages over the keys K with at most MaxInitKeys entries
RECURSIVE StoragesOver(_)
StoragesOver(K) ==
  IF K = {} THEN {<<>>}
  ELSE LET k == CHOOSE k \in K : TRUE
           rest == StoragesOver(K \ {k})
       IN  rest \cup {SetItem(ls, k, t) : ls \in {r \in rest : Cardinality(DOMAIN r) < MaxInitKeys},
                                         t \in InitTexts(k)}

\* keys in the storage when the store is used: two owners' entries for the
\* same logical key, and a timestamp entry
StoreInitKeys == {"u1_x", "u2_x", "u1_x_timestamp"}

InitStore ==
  /\ localStorage \in StoragesOver(StoreInitKeys)
  /\ last = NoOp
  /\ BusIdle

\* a call of getStorageItem(key, userId, Fallback)
Get(key, userId) ==
  \E r \in {getStorageItem(localStorage, key, userId, Fallback)}, fullKey \in {FullKey(key, userId)} :
      /\ localStorage' = r.ls
      /\ last' = [NoOp EXCEPT !.op = "get", !.key = key, !.userId = userId,
                              !.value = Fallback, !.ret = r.ret,
                              !.present = fullKey \in DOMAIN localStorage,
                              !.item = IF fullKey \in DOMAIN localStorage THEN localStorage[fullKey] ELSE <<>>]
      /\ UNCHANGED busVars

\* what a call of setStorageItem leaves, r being its result
SetDone(key, userId, value, first, second, r) ==
  /\ localStorage' = r.ls
  /\ last' = [NoOp EXCEPT !.op = "set", !.key = key, !.userId = userId, !.value = value,
                          !.attempts = r.attempts, !.evictions = r.evictions,
                          !.first = first, !.second = second, !.written = r.written]
  /\ UNCHANGED busVars

\* a call of setStorageItem(key, userId, value)
Set(key, userId, value) ==
  \/ \E first \in WriteOutcomes \ {"quota"} :
       SetDone(key, userId, value, first, "ok",
               setStorageItem(localStorage, key, userId, value, first, "ok", localStorage))
  \/ \E evicted \in ClearOldDataResults(localStorage, userId) :
       \E second \in WriteOutcomes :
         SetDone(key, userId, value, "quota", second,
                 setStorageItem(localStorage, key, userId, value, "quota", second, evicted))

\* a call of removeStorageItem(key, userId)
Remove(key, userId) ==
  /\ localStorage' = removeStorageItem(localStorage, key, userId)
  /\ last' = [NoOp EXCEPT !.op = "remove", !.key = key, !.userId = userId]
  /\ UNCHANGED busVars

\* a call of hasStorageItem(key, userId)
Has(key, userId) ==
  /\ localStorage' = localStorage
  /\ last' = [NoOp EXCEPT !.op = "has", !.key = key, !.userId = userId,
                          !.ret = Bool(hasStorageItem(localStorage, key, userId))]
  /\ UNCHANGED busVars

\* a call of fixStorageIssues()
Fix ==
  /\ localStorage' = fixStorageIssues(localStorage)
  /\ last' = [NoOp EXCEPT !.op = "fix", !.ret = Bool(TRUE),
                          !.present = hasCorruptedData(localStorage)]
  /\ UNCHANGED busVars

NextStore ==
  \/ \E key \in LogicalKeys, userId \in UserIds : Get(key, userId)
  \/ \E key \in LogicalKeys, userId \in UserIds, value \in StoreValues : Set(key, userId, value)
  \/ \E key \in LogicalKeys, userId \in UserIds : Remove(key, userId)
  \/ \E key \in LogicalKeys, userId \in UserIds : Has(key, userId)

SpecStore == InitStore /\ [][NextStore]_vars

\* values whose JSON text is one character shorter than half the maximum
\* size, exactly half of it, and one and two characters longer
ThresholdValues ==
  {StrV(Repeat(Code("A"), (MAX_STORAGE_SIZE \div 2) + d - 2)) : d \in {-1, 0, 1, 2}}

\* the caller stores values around the compression threshold
NextThreshold ==
  \E userId \in UserIds, value \in ThresholdValues : Set("x", userId, value)

SpecThreshold == InitStore /\ [][NextThreshold]_vars

\* the owners whose storage the caller clears; the third identifier starts
\* with the first one and an underscore
ClearOwners == {"u1", "u2", "u1_a"}

\* keys in the storage when an owner's storage is cleared
ClearInitKeys == {FullKey(key, userId) : key \in LogicalKeys, userId \in ClearOwners}

InitClear ==
  /\ localStorage \in StoragesOver(ClearInitKeys)
  /\ last = NoOp
  /\ BusIdle

\* a call of clearUserStorage(userId)
ClearUser(userId) ==
  /\ localStorage' = clearUserStorage(localStorage, userId)
  /\ last' = [NoOp EXCEPT !.op = "clear", !.userId = userId,
                          !.present = UserKeys(localStorage, userId) # {}]
  /\ UNCHANGED busVars

NextClear == \E userId \in ClearOwners : ClearUser(userId)

SpecClear == InitClear /\ [][NextClear]_vars

(***************************************************************************)
(* The store used by owners and with logical keys that hold an underscore  *)
(***************************************************************************)

\* the logical keys the callers use here
CollideKeys == {"x", "a_x"}

InitCollide ==
  /\ localStorage \in
       UNION {[K -> {StoredText(NameShort)}] :
                K \in SUBSET {FullKey("x", "u1"), FullKey("x", "u1_a"), FullKey("x", "u2")}}
  /\ last = NoOp
  /\ BusIdle

NextCollide ==
  \/ \E key \in CollideKeys, userId \in ClearOwners : Set(key, userId, NameLong)
  \/ \E key \in CollideKeys, userId \in ClearOwners : Remove(key, userId)

SpecCollide == InitCollide /\ [][NextCollide]_vars

(***************************************************************************)
(* The eviction pass that setStorageItem runs after a quota error          *)
(***************************************************************************)

\* the keys the callers of the store use here
EvictLogical == {"a", "b", "x"}

\* keys in the storage when the pass runs: two entries of owner u1, each with a
\* timestamp entry, an entry of owner u1_a and an entry of owner u2
EvictKeys ==
  {FullKey("a", "u1"), FullKey("b", "u1"),
   FullKey("a", "u1") \o "_timestamp", FullKey("b", "u1") \o "_timestamp",
   FullKey("x", "u1_a"), FullKey("a", "u2")}

\* the texts of a key: a clock reading for a timestamp entry, a stored value
\* for another
EvictTexts(k) == IF EndsWith(k, "_timestamp") THEN {S("7"), S("9")} ELSE {StoredText(NameShort)}

EvictStorages ==
  UNION {{ls \in [K -> {S("7"), S("9"), StoredText(NameShort)}] : \A k \in K : ls[k] \in EvictTexts(k)} :
           K \in SUBSET EvictKeys}

InitEvict ==
  /\ localStorage \in EvictStorages
  /\ last = NoOp
  /\ BusIdle

\* clearOldData(userId), Object.keys listing the owner's keys in some order
ClearOld(userId) ==
  /\ \E keys \in KeyOrders(UserKeys(localStorage, userId)) :
       localStorage' = clearOldData(localStorage, keys)
  /\ last' = [NoOp EXCEPT !.op = "clearOldData", !.userId = userId,
                          !.present = UserKeys(localStorage, userId) # {}]
  /\ UNCHANGED busVars

NextEvict == \E userId \in ClearOwners : ClearOld(userId)

SpecEvict == InitEvict /\ [][NextEvict]_vars

(***************************************************************************)
(* The store and the sanitizer driven by a caller on a host storage whose  *)
(* calls can throw                                                         *)
(***************************************************************************)

\* the sets of host calls that throw during one call of the layer
Breakages == {{}} \cup {{primitive} : primitive \in Primitives} \cup {Primitives}

\* keys in the storage: an entry of an owner, an entry whose key ends with an
\* owner's id, and one the sanitizer preserves
FaultInitKeys == {"u1_x", "u2_x_u1", "u1_student_1"}

InitFaults ==
  /\ localStorage \in StoragesOver(FaultInitKeys)
  /\ last = NoOp
  /\ BusIdle

\* what a call of the layer leaves, r being its result
Called(op, key, userId, broken, r) ==
  /\ localStorage' = r.ls
  /\ last' = [NoOp EXCEPT !.op = op, !.key = key, !.userId = userId, !.broken = broken,
                          !.threw = r.threw, !.ret = IF r.threw THEN Rejected ELSE r.ret]
  /\ UNCHANGED busVars

\* the ways the setItem calls of one setStorageItem call can go: the second
\* call is made after a quota error only
FaultyWrites == {<<"ok", "ok">>, <<"error", "ok">>} \cup {<<"quota", second>> : second \in WriteOutcomes}

GetOn(key, userId, broken) ==
  \E r \in {getStorageItemTry(localStorage, key, userId, Fallback, broken)} :
    Called("get", key, userId, broken, r)

SetOn(key, userId, value, broken) ==
  \E w \in FaultyWrites, keys \in KeyOrders(UserKeys(localStorage, userId)) :
    Called("set", key, userId, broken,
           setStorageItemTry(localStorage, key, userId, value, w[1], w[2], keys, broken))

RemoveOn(key, userId, broken) ==
  \E r \in {removeStorageItemTry(localStorage, key, userId, broken)} :
    Called("remove", key, userId, broken, r)

HasOn(key, userId, broken) ==
  \E r \in {hasStorageItemTry(localStorage, key, userId, broken)} :
    Called("has", key, userId, broken, r)

ClearOn(userId, broken) ==
  \E r \in {clearUserStorageTry(localStorage, userId, broken)} :
    Called("clear", "", userId, broken, r)

DumpOn(userId, broken) ==
  \E keys \in KeyOrders(DumpKeys(localStorage, userId)) :
    Called("dump", "", userId, broken, getAllUserData(localStorage, keys, userId, broken))

FixOn(broken) ==
  \E r \in {fixStorageIssuesTry(localStorage, broken)} :
    Called("fix", "", "", broken, r)

NextFaults ==
  \/ \E userId \in UserIds, broken \in Breakages : GetOn("x", userId, broken)
  \/ \E userId \in UserIds, broken \in Breakages : SetOn("x", userId, NameShort, broken)
  \/ \E userId \in UserIds, broken \in Breakages : RemoveOn("x", userId, broken)
  \/ \E userId \in UserIds, broken \in Breakages : HasOn("x", userId, broken)
  \/ \E userId \in UserIds, broken \in Breakages : ClearOn(userId, broken)
  \/ \E userId \in UserIds, broken \in Breakages : DumpOn(userId, broken)
  \/ \E broken \in Breakages : FixOn(broken)

SpecFaults == InitFaults /\ [][NextFaults]_vars

(***************************************************************************)
(* The sanitizer run on the storage found at start                         *)
(***************************************************************************)

\* keys in the storage when the sanitizer runs: plain user data, the
\* per-owner students collection, the system owner's entries, a raw login
\* marker, a per-student document entry
FixInitKeys == {"u1_x", "u1_students", "system_users", "system_current_user",
                "isLoggedIn", "u1_student_1"}

\* at most this many keys are in the storage the sanitizer finds
MaxFixKeys == 3

RECURSIVE FixStoragesOver(_)
FixStoragesOver(K) ==
  IF K = {} THEN {<<>>}
  ELSE LET k == CHOOSE k \in K : TRUE
           rest == FixStoragesOver(K \ {k})
       IN  rest \cup {SetItem(ls, k, t) : ls \in {r \in rest : Cardinality(DOMAIN r) < MaxFixKeys},
                                         t \in InitTexts(k)}

InitSanitizer ==
  /\ localStorage \in FixStoragesOver(FixInitKeys)
  /\ last = NoOp
  /\ BusIdle

NextSanitizer == Fix

SpecSanitizer == InitSanitizer /\ [][NextSanitizer]_vars

(***************************************************************************)
(* Change log and shared snapshot (hooks/useRealtimeUpdates.ts) and the    *)
(* student repository that polls it (hooks/useStudentData.ts)              *)
(***************************************************************************)

UPDATES_STORAGE_KEY == "updates"
SHARED_DATA_KEY == "shared_data"

\* the owner under which the log and the snapshot are stored
SHARED == "shared"

\* property names and literals of the stored objects
K_id        == S("id")
K_name      == S("name")
K_type      == S("type")
K_action    == S("action")
K_timestamp == S("timestamp")
K_userId    == S("userId")
K_data      == S("data")
K_students  == S("students")
K_teachers  == S("teachers")
UPDATE_     == S("update_")
STUDENT_    == S("student_")

\* { students: [], teachers: [] }, the default of the snapshot reads
EmptySharedData == Obj(<<K_students, K_teachers>>, <<Arr(<<>>), Arr(<<>>)>>)

RECURSIVE FilterOut(_, _)
\* a.filter(e => e.id !== id)
FilterOut(a, id) ==
  IF a = <<>> THEN <<>>
  ELSE (IF Prop(Head(a), K_id) # id THEN <<Head(a)>> ELSE <<>>) \o FilterOut(Tail(a), id)

\* a.map(e => e.id === data.id ? { ...e, ...data } : e)
MergeInto(a, data) ==
  [i \in 1..Len(a) |-> IF Prop(a[i], K_id) = Prop(data, K_id) THEN Spread(a[i], data) ELSE a[i]]

\* ApplyAction that leaves the collection as it is on create
ApplyActionNoCreate(a, action, data) ==
  CASE action = "create" -> a
    [] action = "update" -> MergeInto(a, data)
    [] action = "delete" -> FilterOut(a, Prop(data, K_id))

\* the change of recordUpdate to one collection of the snapshot
ApplyAction(a, action, data) ==
  CASE action = "create" -> Append(a, data)
    [] action = "update" -> MergeInto(a, data)
    [] action = "delete" -> FilterOut(a, Prop(data, K_id))

\* ApplyUpdate that changes the students whatever the type
ApplyUpdateStudents(sharedData, type, action, data) ==
  SetProp(sharedData, K_students, Arr(ApplyAction(Prop(sharedData, K_students).a, action, data)))

\* the snapshot after recordUpdate's change
ApplyUpdate(sharedData, type, action, data) ==
  IF type = "student"
  THEN SetProp(sharedData, K_students, Arr(ApplyAction(Prop(sharedData, K_students).a, action, data)))
  ELSE SetProp(sharedData, K_teachers, Arr(ApplyAction(Prop(sharedData, K_teachers).a, action, data)))

\* the Update object recordUpdate builds at clock reading t
NewUpdate(type, action, data, userId, t) ==
  Obj(<<K_id, K_type, K_action, K_timestamp, K_userId, K_data>>,
      <<StrV(UPDATE_ \o Digits(t)), StrV(S(type)), StrV(S(action)), Num(t), StrV(S(userId)), data>>)

\* the snapshot read throws on use: it is not an object, or the collection
\* recordUpdate spreads or maps is not an array
SnapshotUnusable(sharedData, type) ==
  \/ sharedData.t # "obj"
  \/ Prop(sharedData, IF type = "student" THEN K_students ELSE K_teachers).t # "arr"

\* SnapshotStored that writes the log together with the snapshot
SnapshotStoredWithLog(w, newUpdates) ==
  [ls |-> SetItem(w.ls, FullKey(UPDATES_STORAGE_KEY, SHARED), StoredText(newUpdates)),
   updates |-> newUpdates, stamped |-> TRUE, threw |-> FALSE, written |-> w.written]

\* the end of recordUpdate, w being what its setStorageItem call gave
SnapshotStored(w, newUpdates) ==
  [ls |-> w.ls, updates |-> newUpdates, stamped |-> TRUE, threw |-> FALSE, written |-> w.written]

\* recordUpdate from the snapshot read on, g being what its getStorageItem
\* call gave and newUpdates the updates state with the new update appended
SnapshotUpdate(g, newUpdates, type, action, data, first, second, evicted) ==
  IF SnapshotUnusable(g.ret, type)
  THEN [ls |-> g.ls, updates |-> newUpdates, stamped |-> TRUE, threw |-> TRUE, written |-> FALSE]
  ELSE SnapshotStored(setStorageItem(g.ls, SHARED_DATA_KEY, SHARED,
                                     ApplyUpdate(g.ret, type, action, data), first, second, evicted),
                      newUpdates)

\* recordUpdate(type, action, data) of a consumer whose updates state is ups,
\* for the logged-in user userId at clock reading t.  first, second and
\* evicted tell how the snapshot write goes, as for setStorageItem.
\* stamped: the update was appended and lastUpdate set; threw: the snapshot
\* read gave something recordUpdate cannot use, and the TypeError leaves
\* recordUpdate before the write; written: the snapshot text was stored.
recordUpdate(ls, ups, type, action, data, userId, t, first, second, evicted) ==
  IF userId = NoUser
  THEN [ls |-> ls, updates |-> ups, stamped |-> FALSE, threw |-> FALSE, written |-> FALSE]
  ELSE SnapshotUpdate(getStorageItem(ls, SHARED_DATA_KEY, SHARED, EmptySharedData),
                      Arr(Append(ups.a, NewUpdate(type, action, data, userId, t))),
                      type, action, data, first, second, evicted)

\* checkForUpdates that also counts an update made at lastCheck
checkForUpdatesNotBefore(ups, lastCheck) ==
  \E i \in 1..Len(ups.a) : Prop(ups.a[i], K_timestamp).n >= lastCheck

\* checkForUpdates(lastCheck) over the updates state ups
checkForUpdates(ups, lastCheck) ==
  \E i \in 1..Len(ups.a) : Prop(ups.a[i], K_timestamp).n > lastCheck

\* getSharedData()
getSharedData(ls) == getStorageItem(ls, SHARED_DATA_KEY, SHARED, EmptySharedData)

\* sharedData[name] || [] as loadStudents and loadTeachers take it; a snapshot
\* that is not an object makes them throw, and their catch sets []
Collection(sharedData, name) ==
  IF sharedData.t # "obj" THEN Arr(<<>>)
  ELSE IF Prop(sharedData, name).t \in {"undef", "null"} THEN Arr(<<>>)
  ELSE Prop(sharedData, name)

\* loadTeachers(), g being what its getSharedData call gave
loadTeachers(g, loaded) ==
  [ls |-> g.ls, students |-> loaded, teachers |-> Collection(g.ret, K_teachers)]

\* loadStudents(), g being what its getSharedData call gave, then loadTeachers()
loadStudents(g) == loadTeachers(getSharedData(g.ls), Collection(g.ret, K_students))

\* loadStudents() then loadTeachers(): two reads of the snapshot
LoadBoth(ls) == loadStudents(getSharedData(ls))

\* the demo administrator account, the user of the model
ADMIN_ID == "admin_1"
AdminUser ==
  Obj(<<K_id, K_name, S("email"), S("role")>>,
      <<StrV(S(ADMIN_ID)), StrV(S("Admin User")), StrV(S("admin@nandanvanschool.com")), StrV(S("admin"))>>)

USER_STORAGE_KEY == "current_user"
SYSTEM_USER_ID == "system"

\* the clock of the model stops at this reading
MaxTime == 1

\* a consumer records at most this many updates
MaxUpdates == 1

\* the form data of the students the callers add, and the change they make
StudentData == {Obj(<<K_name>>, <<StrV(S("A"))>>)}
UpdatedData == {Obj(<<K_name>>, <<StrV(S("B"))>>)}

\* the ids callers pass to updateStudent and deleteStudent
StudentIds == {StrV(STUDENT_ \o Digits(t)) : t \in 0..MaxTime}

\* the ways one setStorageItem(key, userId, value) call can go from ls
WriteResults(ls, key, userId, value) ==
  {setStorageItem(ls, key, userId, value, first, "ok", ls) : first \in WriteOutcomes \ {"quota"}}
  \cup {setStorageItem(ls, key, userId, value, "quota", second, evicted) :
          second \in WriteOutcomes, evicted \in ClearOldDataResults(ls, userId)}

\* the storages found when the application starts: empty, or with a snapshot
\* entry the store did not write
BusInitStorages ==
  {<<>>} \cup {SetItem(<<>>, FullKey(SHARED_DATA_KEY, SHARED), t) : t \in {Garbage, TaggedGarbage}}

\* the application starts with nobody logged in
InitSession ==
  /\ localStorage \in BusInitStorages
  /\ last = NoOp
  /\ BusIdle

\* the application runs with the administrator's session restored from the
\* storage (checkInitialUser) and no consumer mounted yet
InitBus ==
  /\ localStorage \in {SetItem(ls, FullKey(USER_STORAGE_KEY, SYSTEM_USER_ID), StoredText(AdminUser)) :
                          ls \in BusInitStorages}
  /\ last = NoOp
  /\ Started
  /\ user = ADMIN_ID
  /\ now = 0
  /\ mounted = [c \in Consumers |-> FALSE]
  /\ updates = [c \in Consumers |-> Arr(<<>>)]
  /\ lastUpdate = [c \in Consumers |-> 0]
  /\ students = [c \in Consumers |-> Arr(<<>>)]
  /\ teachers = [c \in Consumers |-> Arr(<<>>)]
  /\ savePending = [c \in Consumers |-> FALSE]
  /\ refreshPending = [c \in Consumers |-> FALSE]
  /\ intervals = [c \in Consumers |-> 0]

\* a cleanup of the periodic update check that leaves the interval running
ClearIntervalLeak(n) == n

\* the cleanup of the periodic update check: clearInterval(interval), when the
\* effect had set one
ClearInterval(n) == IF n > 0 THEN n - 1 ELSE 0

\* the periodic update check effect runs again: the cleanup of its last run,
\* then setInterval unless no user is logged in
PeriodicCheck(n, userNow) == ClearInterval(n) + (IF userNow # NoUser THEN 1 ELSE 0)

\* one millisecond passes
Tick ==
  /\ now < MaxTime
  /\ now' = now + 1
  /\ last' = NoOp
  /\ UNCHANGED <<localStorage, user, mounted, updates, lastUpdate, students, teachers,
                 savePending, refreshPending, ran, intervals>>

\* the mount effect that runs next, "" when all have run
NextEffect == IF Len(ran) < Len(MountEffects(Root)) THEN MountEffects(Root)[Len(ran) + 1] ELSE ""

\* the mount effect of AppWithRoutes: fixStorageIssues()
FixOnStartup ==
  /\ NextEffect = "fixStorageIssues"
  /\ ran' = Append(ran, "fixStorageIssues")
  /\ localStorage' = fixStorageIssues(localStorage)
  /\ last' = [NoOp EXCEPT !.op = "fix", !.ret = Bool(TRUE)]
  /\ UNCHANGED <<user, now, mounted, updates, lastUpdate, students, teachers, savePending,
                 refreshPending, intervals>>

\* if (storedUser): the value is neither null nor undefined, 0 or ''
Truthy(v) ==
  /\ v.t \notin {"null", "undef"}
  /\ v.t = "num" => v.n # 0
  /\ v.t = "str" => v.s # <<>>

\* user.id of a stored user as the template of the full key prints it
UserIdOf(v) ==
  IF v.t = "obj" /\ Prop(v, K_id).t = "str" THEN Str(Prop(v, K_id).s) ELSE "undefined"

\* the mount effect of AuthProvider: checkInitialUser()
CheckInitialUser ==
  /\ NextEffect = "checkInitialUser"
  /\ ran' = Append(ran, "checkInitialUser")
  /\ \E g \in {getStorageItem(localStorage, USER_STORAGE_KEY, SYSTEM_USER_ID, Null)} :
       /\ localStorage' = g.ls
       /\ user' = IF Truthy(g.ret) THEN UserIdOf(g.ret) ELSE user
       /\ last' = [NoOp EXCEPT !.op = "checkInitialUser", !.ret = g.ret]
  /\ UNCHANGED <<now, mounted, updates, lastUpdate, students, teachers, savePending, refreshPending,
                 intervals>>

\* login with the demo administrator account, once the application has started
Login ==
  /\ Started
  /\ user = NoUser
  /\ \E w \in WriteResults(localStorage, USER_STORAGE_KEY, SYSTEM_USER_ID, AdminUser) :
       /\ localStorage' = w.ls
       /\ last' = NoOp
  /\ user' = ADMIN_ID
  /\ UNCHANGED <<now, mounted, updates, lastUpdate, students, teachers, savePending, refreshPending, ran,
                 intervals>>

\* logout(); the protected route then unmounts every consumer
Logout ==
  /\ user # NoUser
  /\ user' = NoUser
  /\ localStorage' = removeStorageItem(localStorage, USER_STORAGE_KEY, SYSTEM_USER_ID)
  /\ last' = NoOp
  /\ mounted' = [c \in Consumers |-> FALSE]
  /\ updates' = [c \in Consumers |-> Arr(<<>>)]
  /\ lastUpdate' = [c \in Consumers |-> 0]
  /\ students' = [c \in Consumers |-> Arr(<<>>)]
  /\ teachers' = [c \in Consumers |-> Arr(<<>>)]
  /\ savePending' = [c \in Consumers |-> FALSE]
  /\ refreshPending' = [c \in Consumers |-> FALSE]
  /\ intervals' = [c \in Consumers |-> ClearInterval(intervals[c])]
  /\ UNCHANGED <<now, ran>>

\* a component using useStudentData mounts: the mount effects load the
\* updates, set lastUpdate and load students and teachers from the snapshot;
\* the changed updates state schedules the save effect
Mount(c) ==
  /\ user # NoUser
  /\ ~mounted[c]
  /\ \E g \in {getStorageItem(localStorage, UPDATES_STORAGE_KEY, SHARED, Arr(<<>>))} :
       \E l \in {LoadBoth(g.ls)} :
         /\ localStorage' = l.ls
         /\ updates' = [updates EXCEPT ![c] = g.ret]
         /\ students' = [students EXCEPT ![c] = l.students]
         /\ teachers' = [teachers EXCEPT ![c] = l.teachers]
  /\ mounted' = [mounted EXCEPT ![c] = TRUE]
  /\ lastUpdate' = [lastUpdate EXCEPT ![c] = now]
  /\ savePending' = [savePending EXCEPT ![c] = TRUE]
  /\ intervals' = [intervals EXCEPT ![c] = PeriodicCheck(@, user)]
  /\ last' = NoOp
  /\ UNCHANGED <<user, now, refreshPending, ran>>

\* the component unmounts: its state is gone and the cleanup of its periodic
\* update check runs
Unmount(c) ==
  /\ mounted[c]
  /\ mounted' = [mounted EXCEPT ![c] = FALSE]
  /\ updates' = [updates EXCEPT ![c] = Arr(<<>>)]
  /\ lastUpdate' = [lastUpdate EXCEPT ![c] = 0]
  /\ students' = [students EXCEPT ![c] = Arr(<<>>)]
  /\ teachers' = [teachers EXCEPT ![c] = Arr(<<>>)]
  /\ savePending' = [savePending EXCEPT ![c] = FALSE]
  /\ refreshPending' = [refreshPending EXCEPT ![c] = FALSE]
  /\ intervals' = [intervals EXCEPT ![c] = ClearInterval(@)]
  /\ last' = [NoOp EXCEPT !.op = "unmount", !.consumer = c]
  /\ UNCHANGED <<localStorage, user, now, ran>>

\* the effects React runs after a render of consumer c, in the order the
\* hooks declare them: the save effect of useRealtimeUpdates (skipped while
\* updates is empty), then the load effect of useStudentData when
\* forceRefresh changed refreshTrigger, then the periodic update check, whose
\* dependencies the render changed
Effects(c) ==
  /\ mounted[c]
  /\ savePending[c] \/ refreshPending[c]
  /\ \E saved \in IF savePending[c] /\ user # NoUser /\ Len(updates[c].a) # 0
                  THEN {w.ls : w \in WriteResults(localStorage, UPDATES_STORAGE_KEY, SHARED, updates[c])}
                  ELSE {localStorage} :
       IF refreshPending[c]
       THEN \E l \in {LoadBoth(saved)} :
              /\ localStorage' = l.ls
              /\ students' = [students EXCEPT ![c] = l.students]
              /\ teachers' = [teachers EXCEPT ![c] = l.teachers]
       ELSE /\ localStorage' = saved
            /\ UNCHANGED <<students, teachers>>
  /\ savePending' = [savePending EXCEPT ![c] = FALSE]
  /\ refreshPending' = [refreshPending EXCEPT ![c] = FALSE]
  /\ last' = IF refreshPending[c] THEN [NoOp EXCEPT !.op = "load", !.consumer = c] ELSE NoOp
  /\ intervals' = [intervals EXCEPT ![c] = PeriodicCheck(@, user)]
  /\ UNCHANGED <<user, now, mounted, updates, lastUpdate, ran>>

\* the callback of a live interval of consumer c fires
PollTick(c) ==
  /\ intervals[c] > 0
  /\ ~savePending[c] /\ ~refreshPending[c]
  /\ IF checkForUpdates(updates[c], lastUpdate[c])
     THEN \E l \in {LoadBoth(localStorage)} :
            /\ localStorage' = l.ls
            /\ students' = [students EXCEPT ![c] = l.students]
            /\ teachers' = [teachers EXCEPT ![c] = l.teachers]
     ELSE UNCHANGED <<localStorage, students, teachers>>
  /\ last' = [NoOp EXCEPT !.op = "poll", !.consumer = c,
                          !.ret = Bool(checkForUpdates(updates[c], lastUpdate[c]))]
  /\ UNCHANGED <<user, now, mounted, updates, lastUpdate, savePending, refreshPending, ran, intervals>>

\* the ways the snapshot write of a recordUpdate call can go: first, second, evicted
SnapshotWrites ==
  {<<first, "ok", localStorage>> : first \in WriteOutcomes \ {"quota"}}
  \cup {<<"quota", second, evicted>> :
          second \in WriteOutcomes,
          evicted \in ClearOldDataResults(getSharedData(localStorage).ls, SHARED)}

\* what a mutation of consumer c leaves after its recordUpdate call gave r;
\* returned is the result when recordUpdate returns, failed when it throws
Recorded(c, op, id, entity, r, returned, failed) ==
  /\ localStorage' = r.ls
  /\ updates' = [updates EXCEPT ![c] = r.updates]
  /\ lastUpdate' = [lastUpdate EXCEPT ![c] = IF r.stamped THEN now ELSE @]
  /\ savePending' = [savePending EXCEPT ![c] = r.stamped]
  /\ refreshPending' = [refreshPending EXCEPT ![c] = ~r.threw]
  /\ last' = [NoOp EXCEPT !.op = op, !.consumer = c, !.id = id, !.value = entity, !.time = now,
                          !.ret = IF r.threw THEN failed ELSE returned, !.written = r.written]
  /\ UNCHANGED <<user, now, mounted, teachers, ran, intervals>>

\* addStudent(studentData) of consumer c
AddStudent(c, studentData) ==
  /\ mounted[c] /\ user # NoUser
  /\ ~savePending[c] /\ ~refreshPending[c]
  /\ Len(updates[c].a) < MaxUpdates
  /\ LET newStudent == SetProp(studentData, K_id, StrV(STUDENT_ \o Digits(now)))
     IN  /\ students' = [students EXCEPT ![c] = Arr(Append(students[c].a, newStudent))]
         /\ \E w \in SnapshotWrites :
              Recorded(c, "addStudent", Null, newStudent,
                       recordUpdate(localStorage, updates[c], "student", "create", newStudent,
                                    user, now, w[1], w[2], w[3]), newStudent, Null)

\* the index of the student with this id in the students state, 0 if none
IndexOf(a, id) ==
  IF \E i \in 1..Len(a) : Prop(a[i], K_id) = id
  THEN CHOOSE i \in 1..Len(a) : Prop(a[i], K_id) = id /\ \A j \in 1..(i - 1) : Prop(a[j], K_id) # id
  ELSE 0

\* a call that found no such student and ends with ret: nothing recorded,
\* nothing changed
NotFound(c, op, id, ret) ==
  /\ last' = [NoOp EXCEPT !.op = op, !.consumer = c, !.id = id, !.value = id, !.time = now, !.ret = ret]
  /\ UNCHANGED <<localStorage, user, now, mounted, updates, lastUpdate, students, teachers,
                 savePending, refreshPending, ran, intervals>>

\* UpdateStudent that lets updatedData replace the id
UpdateStudentDataId(c, id, updatedData) ==
  /\ mounted[c] /\ user # NoUser
  /\ ~savePending[c] /\ ~refreshPending[c]
  /\ Len(updates[c].a) < MaxUpdates
  /\ LET studentIndex == IndexOf(students[c].a, id)
         updatedStudent == Spread(students[c].a[studentIndex], updatedData)
     IN  IF studentIndex = 0
         THEN NotFound(c, "updateStudent", id, Null)
         ELSE /\ students' = [students EXCEPT ![c] = Arr([@.a EXCEPT ![studentIndex] = updatedStudent])]
              /\ \E w \in SnapshotWrites :
                   Recorded(c, "updateStudent", id, updatedStudent,
                            recordUpdate(localStorage, updates[c], "student", "update", updatedStudent,
                                         user, now, w[1], w[2], w[3]), updatedStudent, Null)

\* updateStudent(id, updatedData) of consumer c
UpdateStudent(c, id, updatedData) ==
  /\ mounted[c] /\ user # NoUser
  /\ ~savePending[c] /\ ~refreshPending[c]
  /\ Len(updates[c].a) < MaxUpdates
  /\ LET studentIndex == IndexOf(students[c].a, id)
         updatedStudent == SetProp(Spread(students[c].a[studentIndex], updatedData), K_id, id)
     IN  IF studentIndex = 0
         THEN NotFound(c, "updateStudent", id, Null)
         ELSE /\ students' = [students EXCEPT ![c] = Arr([@.a EXCEPT ![studentIndex] = updatedStudent])]
              /\ \E w \in SnapshotWrites :
                   Recorded(c, "updateStudent", id, updatedStudent,
                            recordUpdate(localStorage, updates[c], "student", "update", updatedStudent,
                                         user, now, w[1], w[2], w[3]), updatedStudent, Null)

\* deleteStudent(id) of consumer c
DeleteStudent(c, id) ==
  /\ mounted[c] /\ user # NoUser
  /\ ~savePending[c] /\ ~refreshPending[c]
  /\ Len(updates[c].a) < MaxUpdates
  /\ LET studentIndex == IndexOf(students[c].a, id)
         studentToDelete == students[c].a[studentIndex]
     IN  IF studentIndex = 0
         THEN NotFound(c, "deleteStudent", id, Rejected)
         ELSE /\ students' = [students EXCEPT ![c] = Arr(FilterOut(students[c].a, id))]
              /\ \E w \in SnapshotWrites :
                   Recorded(c, "deleteStudent", id, studentToDelete,
                            recordUpdate(localStorage, updates[c], "student", "delete", studentToDelete,
                                         user, now, w[1], w[2], w[3]), Undef, Rejected)

STUDENTS_STORAGE_KEY == "students"
TEACHERS_STORAGE_KEY == "teachers"
K_teacherAssigned == S("teacherAssigned")
TEACHER_ == S("teacher_")

\* a consumer holds at most this many teachers
MaxTeachers == 1

\* the names callers give to addTeacher and the ids they pass to deleteTeacher
TeacherNames == {S("T")}
TeacherIds == {StrV(TEACHER_ \o Digits(t)) : t \in 0..MaxTime}

\* the form data of a student assigned to the teacher added at clock reading 0
AssignedData == {Obj(<<K_name, K_teacherAssigned>>, <<StrV(S("A")), StrV(TEACHER_ \o Digits(0))>>)}

\* addTeacher(name) of consumer c: the new teacher goes to the teachers state
\* and the collection is written under the user's own teachers key
AddTeacher(c, name) ==
  /\ mounted[c] /\ user # NoUser
  /\ ~savePending[c] /\ ~refreshPending[c]
  /\ Len(teachers[c].a) < MaxTeachers
  /\ LET newTeacher == Obj(<<K_id, K_name>>, <<StrV(TEACHER_ \o Digits(now)), StrV(name)>>)
         updatedTeachers == Arr(Append(teachers[c].a, newTeacher))
     IN  /\ teachers' = [teachers EXCEPT ![c] = updatedTeachers]
         /\ \E w \in WriteResults(localStorage, TEACHERS_STORAGE_KEY, user, updatedTeachers) :
              /\ localStorage' = w.ls
              /\ last' = [NoOp EXCEPT !.op = "addTeacher", !.consumer = c, !.value = newTeacher,
                                      !.time = now, !.ret = newTeacher, !.written = w.written]
  /\ UNCHANGED <<user, now, mounted, updates, lastUpdate, students, savePending, refreshPending, ran,
                 intervals>>

\* students.map(student => student.teacherAssigned === id
\*                         ? { ...student, teacherAssigned: undefined } : student)
Unassign(a, id) ==
  [i \in 1..Len(a) |-> IF Prop(a[i], K_teacherAssigned) = id
                        THEN SetProp(a[i], K_teacherAssigned, Undef)
                        ELSE a[i]]

\* the end of deleteTeacher, ls being the storage after the teachers write:
\* when the students changed they are set and written under the user's own
\* students key; then forceRefresh
Cascade(c, id, ls, updatedStudents, before, after, teachersWritten) ==
  /\ IF after # before
     THEN /\ students' = [students EXCEPT ![c] = updatedStudents]
          /\ \E w \in WriteResults(ls, STUDENTS_STORAGE_KEY, user, updatedStudents) :
               /\ localStorage' = w.ls
               /\ last' = [NoOp EXCEPT !.op = "deleteTeacher", !.consumer = c, !.value = id,
                                       !.time = now, !.ret = Undef, !.present = TRUE,
                                       !.written = teachersWritten /\ w.written]
     ELSE /\ students' = students
          /\ localStorage' = ls
          /\ last' = [NoOp EXCEPT !.op = "deleteTeacher", !.consumer = c, !.value = id,
                                  !.time = now, !.ret = Undef, !.written = teachersWritten]
  /\ refreshPending' = [refreshPending EXCEPT ![c] = TRUE]

\* deleteTeacher(id) of consumer c
DeleteTeacher(c, id) ==
  /\ mounted[c] /\ user # NoUser
  /\ ~savePending[c] /\ ~refreshPending[c]
  /\ LET updatedTeachers == Arr(FilterOut(teachers[c].a, id))
         updatedStudents == Arr(Unassign(students[c].a, id))
     IN  /\ teachers' = [teachers EXCEPT ![c] = updatedTeachers]
         /\ \E w \in WriteResults(localStorage, TEACHERS_STORAGE_KEY, user, updatedTeachers) :
              Cascade(c, id, w.ls, updatedStudents, Stringify(students[c]),
                      Stringify(updatedStudents), w.written)
  /\ UNCHANGED <<user, now, mounted, updates, lastUpdate, savePending, ran, intervals>>

\* the consumers of one session at work: mounts, mutations, effects, polls
NextBus ==
  \/ Tick
  \/ \E c \in Consumers : Mount(c)
  \/ \E c \in Consumers : Effects(c)
  \/ \E c \in Consumers : PollTick(c)
  \/ \E c \in Consumers, studentData \in StudentData : AddStudent(c, studentData)
  \/ \E c \in Consumers, id \in StudentIds, updatedData \in UpdatedData : UpdateStudent(c, id, updatedData)
  \/ \E c \in Consumers, id \in StudentIds : DeleteStudent(c, id)

SpecBus == InitBus /\ [][NextBus]_vars

\* sessions and the life of the consumers, without mutations
NextSession ==
  \/ Tick
  \/ Login
  \/ Logout
  \/ \E c \in Consumers : Mount(c)
  \/ \E c \in Consumers : Unmount(c)
  \/ \E c \in Consumers : Effects(c)
  \/ \E c \in Consumers : PollTick(c)

SpecSession == InitSession /\ [][NextSession]_vars

\* the storages the application may find when it starts: user data, a
\* snapshot and a session entry, each possibly corrupted, or the stored
\* session of the administrator
StartupStorages ==
  LET found == FixStoragesOver({"u1_x", FullKey(SHARED_DATA_KEY, SHARED),
                                FullKey(USER_STORAGE_KEY, SYSTEM_USER_ID)})
  IN  found \cup {SetItem(ls, FullKey(USER_STORAGE_KEY, SYSTEM_USER_ID), StoredText(AdminUser)) :
                    ls \in found}

\* the application has rendered for the first time and no effect has run
InitStartup ==
  /\ localStorage \in StartupStorages
  /\ last = NoOp
  /\ ran = <<>>
  /\ user = NoUser
  /\ now = 0
  /\ mounted = [c \in Consumers |-> FALSE]
  /\ updates = [c \in Consumers |-> Arr(<<>>)]
  /\ lastUpdate = [c \in Consumers |-> 0]
  /\ students = [c \in Consumers |-> Arr(<<>>)]
  /\ teachers = [c \in Consumers |-> Arr(<<>>)]
  /\ savePending = [c \in Consumers |-> FALSE]
  /\ refreshPending = [c \in Consumers |-> FALSE]
  /\ intervals = [c \in Consumers |-> 0]

\* the component that uses the student repository
Repository == "c1"

\* the start of the application and the session that follows
NextStartup ==
  \/ FixOnStartup
  \/ CheckInitialUser
  \/ Login
  \/ Logout
  \/ Mount(Repository)
  \/ Effects(Repository)
  \/ Unmount(Repository)

SpecStartup == InitStartup /\ [][NextStartup]_vars

\* one repository instance at work on students and teachers
NextRepo ==
  \/ Tick
  \/ Mount(Repository)
  \/ Effects(Repository)
  \/ \E studentData \in StudentData \cup AssignedData : AddStudent(Repository, studentData)
  \/ \E id \in StudentIds : DeleteStudent(Repository, id)
  \/ \E name \in TeacherNames : AddTeacher(Repository, name)
  \/ \E id \in TeacherIds : DeleteTeacher(Repository, id)

SpecRepo == InitBus /\ [][NextRepo]_vars

(***************************************************************************)
(* The change log and the snapshot driven by a component that uses         *)
(* useRealtimeUpdates                                                      *)
(***************************************************************************)

\* the component records at most this many updates
MaxRecorded == 2

\* the entities the component records: two with the same id, the second
\* without the assignment of the first, and one with another id
EntityAssigned == Obj(<<K_id, K_name, K_teacherAssigned>>, <<StrV(S("e1")), StrV(S("A")), StrV(S("T"))>>)
EntityRenamed  == Obj(<<K_id, K_name>>, <<StrV(S("e1")), StrV(S("B"))>>)
EntityOther    == Obj(<<K_id, K_name>>, <<StrV(S("e2")), StrV(S("A"))>>)
Entities == {EntityAssigned, EntityRenamed, EntityOther}

RecordTypes == {"student", "teacher"}
RecordActions == {"create", "update", "delete"}

\* the snapshots found in the storage when the component starts: none, or
\* one the store wrote earlier
RecordedBefore ==
  Obj(<<K_students, K_teachers>>, <<Arr(<<EntityOther, EntityAssigned>>), Arr(<<EntityOther>>)>>)

InitRecord ==
  /\ localStorage \in
       {SetItem(ls, FullKey(USER_STORAGE_KEY, SYSTEM_USER_ID), StoredText(AdminUser)) :
          ls \in {<<>>, SetItem(<<>>, FullKey(SHARED_DATA_KEY, SHARED), StoredText(RecordedBefore))}}
  /\ last = NoOp
  /\ Started
  /\ user = ADMIN_ID
  /\ now = 0
  /\ mounted = [c \in Consumers |-> FALSE]
  /\ updates = [c \in Consumers |-> Arr(<<>>)]
  /\ lastUpdate = [c \in Consumers |-> 0]
  /\ students = [c \in Consumers |-> Arr(<<>>)]
  /\ teachers = [c \in Consumers |-> Arr(<<>>)]
  /\ savePending = [c \in Consumers |-> FALSE]
  /\ refreshPending = [c \in Consumers |-> FALSE]
  /\ intervals = [c \in Consumers |-> 0]

\* recordUpdate(type, action, data) called by the component c
RecordUpdate(c, type, action, data) ==
  /\ mounted[c]
  /\ ~savePending[c] /\ ~refreshPending[c]
  /\ Len(updates[c].a) < MaxRecorded
  /\ \E w \in SnapshotWrites :
       \E r \in {recordUpdate(localStorage, updates[c], type, action, data, user, now, w[1], w[2], w[3])} :
         /\ localStorage' = r.ls
         /\ updates' = [updates EXCEPT ![c] = r.updates]
         /\ lastUpdate' = [lastUpdate EXCEPT ![c] = IF r.stamped THEN now ELSE @]
         /\ savePending' = [savePending EXCEPT ![c] = r.stamped]
         /\ last' = [NoOp EXCEPT !.op = "recordUpdate", !.consumer = c, !.type = type,
                                 !.action = action, !.value = data, !.time = now,
                                 !.ret = IF r.threw THEN Rejected ELSE Undef,
                                 !.written = r.written]
  /\ UNCHANGED <<user, now, mounted, students, teachers, refreshPending, ran, intervals>>

\* checkForUpdates(lastCheck) called by the component c
CheckForUpdates(c, lastCheck) ==
  /\ mounted[c]
  /\ ~savePending[c] /\ ~refreshPending[c]
  /\ last' = [NoOp EXCEPT !.op = "checkForUpdates", !.consumer = c, !.time = lastCheck,
                          !.ret = Bool(checkForUpdates(updates[c], lastCheck))]
  /\ UNCHANGED <<localStorage, user, now, mounted, updates, lastUpdate, students, teachers,
                 savePending, refreshPending, ran, intervals>>

\* the component records updates of every kind, all at one clock reading
NextRecord ==
  \/ Mount(Repository)
  \/ Effects(Repository)
  \/ \E type \in RecordTypes, action \in RecordActions, data \in Entities :
       RecordUpdate(Repository, type, action, data)

SpecRecord == InitRecord /\ [][NextRecord]_vars

\* the component records new students and asks its log for updates
NextLog ==
  \/ Tick
  \/ Mount(Repository)
  \/ Effects(Repository)
  \/ \E data \in Entities : RecordUpdate(Repository, "student", "create", data)
  \/ \E lastCheck \in 0..MaxTime : CheckForUpdates(Repository, lastCheck)

SpecLog == InitRecord /\ [][NextLog]_vars

(***************************************************************************)
(* The student repository asked to change students it has and has not      *)
(***************************************************************************)

\* the ids the callers pass: one of a stored student and one of none
EditIds == {StrV(S("e1")), StrV(S("e9"))}

\* the changes the callers make: a new name, and a new name with another id
EditData == {Obj(<<K_name>>, <<StrV(S("B"))>>),
             Obj(<<K_id, K_name>>, <<StrV(S("e9")), StrV(S("B"))>>)}

NextEdit ==
  \/ \E c \in Consumers : Mount(c)
  \/ \E c \in Consumers : Effects(c)
  \/ \E c \in Consumers, id \in EditIds, updatedData \in EditData : UpdateStudent(c, id, updatedData)
  \/ \E c \in Consumers, id \in EditIds : DeleteStudent(c, id)

SpecEdit == InitRecord /\ [][NextEdit]_vars

(***************************************************************************)
(* The codec driven by a caller                                            *)
(***************************************************************************)

\* the count at which compressData's loop closes a group
MAX_COUNT == 255

\* short runs have up to this many characters
MaxRun == 6

\* the lengths of the runs in the values the caller encodes: short ones, and
\* ones around one and two full groups
RunLengths ==
  (1..MaxRun) \cup ((MAX_COUNT - 1)..(MAX_COUNT + 4)) \cup {2 * MAX_COUNT, 2 * MAX_COUNT + 1, 2 * MAX_COUNT + 4}

\* a string of n letters A
RunString(n) == StrV(Repeat(Code("A"), n))

\* arrays nested d deep: [], [[]], [[[]]], ...
RECURSIVE Nested(_)
Nested(d) == IF d <= 1 THEN Arr(<<>>) ELSE Arr(<<Nested(d - 1)>>)

\* the values the caller encodes
CodecValues ==
  {RunString(n) : n \in RunLengths}
  \cup {Arr(<<RunString(n), RunString(n)>>) : n \in RunLengths}
  \cup {Obj(<<K_name>>, <<RunString(n)>>) : n \in RunLengths}
  \cup {Nested(d) : d \in 1..MaxRun}
  \cup {Null, Num(10000), Num(7)}

\* the texts the caller decodes that compressData did not produce
CodecTexts ==
  BadTexts \cup
  { <<NUL>>, <<NUL, 5, Code("A")>>, <<NUL, 0, Code("A")>>,
    <<QUOTE, NUL, 4, Code("A"), QUOTE>>, <<QUOTE, Code("A"), QUOTE, NUL>>,
    <<LBRACK, NUL, 4, Code("1"), RBRACK>>, <<LBRACK, NUL, 4, Code("1")>>,
    S("{\"name\":\"AB\"}"), S("[1,2"), S("7") }

\* the caller has nothing in hand yet
InitCodec ==
  /\ localStorage = <<>>
  /\ last = NoOp
  /\ BusIdle

\* compressData(value); the record keeps the JSON text of the value as well
Compress(value) ==
  /\ \E compressed \in {compressData(value)} :
       last' = [NoOp EXCEPT !.op = "compress", !.value = value, !.item = compressed]
  /\ UNCHANGED <<localStorage, busVars>>

\* decompressData(compressed) of the text compressData has just given
Decompress ==
  /\ last.op = "compress"
  /\ \E data \in {decompressData(last.item)} :
       last' = [NoOp EXCEPT !.op = "decompress", !.value = last.value, !.item = last.item,
                           !.ret = data]
  /\ UNCHANGED <<localStorage, busVars>>

\* decompressData(text) of a text from elsewhere
DecompressText(text) ==
  /\ last.op # "compress"
  /\ \E data \in {decompressData(text)} :
       last' = [NoOp EXCEPT !.op = "decompressText", !.item = text, !.ret = data]
  /\ UNCHANGED <<localStorage, busVars>>

\* the caller encodes a value, decodes what compressData gave, or decodes a
\* text from elsewhere
NextCodec ==
  \/ \E value \in CodecValues : Compress(value)
  \/ Decompress
  \/ \E text \in CodecTexts : DecompressText(text)

SpecCodec == InitCodec /\ [][NextCodec]_vars

(***************************************************************************)
(* Properties                                                              *)
(***************************************************************************)

\* what getStorageItem(key, userId, Fallback) would return in storage ls
Read(ls, key, userId) == getStorageItem(ls, key, userId, Fallback).ret

\* the text is tagged as compressed
Tagged(text) == StartsWith(text, COMPRESSED_PREFIX)


\* C1: right after a setStorageItem(k, o, v) whose write was stored,
\* getStorageItem(k, o, fallback) returns a value equal to v, whether the
\* text was stored as plain JSON or compressed.
C1_RoundTrip ==
  (last.op = "set" /\ last.written) => Read(localStorage, last.key, last.userId) = last.value

\* a compressed value, the one of the end-to-end scenario, was stored and reads back
C1_Witness ==
  /\ last.op = "set" /\ last.written /\ last.value = NameLong
  /\ Tagged(localStorage[FullKey(last.key, last.userId)])
  /\ Read(localStorage, last.key, last.userId) = NameLong

\* the other owner of the model
OtherUsers(userId) == UserIds \ {userId}

C3_SelfHealUntagged ==
  (last.op = "get" /\ last.present /\ last.item # <<>> /\ ~Tagged(last.item) /\ ~JSONParse(last.item).ok)
    => /\ last.ret = last.value
       /\ ~hasStorageItem(localStorage, last.key, last.userId)

C3_Witness ==
  /\ last.op = "get" /\ last.present /\ last.item = Garbage
  /\ last.ret = Fallback
  /\ ~hasStorageItem(localStorage, last.key, last.userId)

\* C4: a get that found a tagged text whose payload does not decode into JSON
\* returned the fallback and left the key absent.
C4_SelfHealTagged ==
  (last.op = "get" /\ last.present /\ Tagged(last.item)
     /\ ~JSONParse(Expand(Payload(last.item))).ok)
    => /\ last.ret = last.value
       /\ ~hasStorageItem(localStorage, last.key, last.userId)

\* C5: a set makes at most two write attempts; after a quota failure it runs
\* the eviction once and retries once, and drops the write if the retry fails
\* too; after another failure it neither evicts nor retries, and nothing in
\* the storage changes.
C5_QuotaRecovery ==
  [][last'.op = "set" =>
       /\ last'.attempts <= 2
       /\ last'.first = "ok" => (last'.attempts = 1 /\ last'.evictions = 0 /\ last'.written)
       /\ last'.first = "quota" => (last'.attempts = 2 /\ last'.evictions = 1)
       /\ (last'.first = "quota" /\ last'.second = "ok") => last'.written
       /\ (last'.first = "quota" /\ last'.second # "ok") =>
            (~last'.written /\ localStorage' \in ClearOldDataResults(localStorage, last'.userId))
       /\ last'.first = "error" =>
            (last'.attempts = 1 /\ last'.evictions = 0 /\ ~last'.written /\ localStorage' = localStorage)]_vars

\* a set evicted one of the owner's keys and its retry stored the value
C5_Witness ==
  /\ last.op = "set" /\ last.first = "quota" /\ last.second = "ok" /\ last.written
  /\ last.key = "x" /\ last.userId = "u1"
  /\ "u1_students" \notin DOMAIN localStorage
  /\ "u1_x" \in DOMAIN localStorage

\* C6: a sanitizer run on a storage without a corrupted entry (every value
\* is empty, tagged, or parses as JSON) leaves every key and value unchanged.
C6_SanitizerNoOp ==
  [][(/\ last'.op = "fix"
      /\ \A k \in DOMAIN localStorage :
            \/ localStorage[k] = <<>>
            \/ Tagged(localStorage[k])
            \/ JSONParse(localStorage[k]).ok)
       => localStorage' = localStorage]_vars

\* the sanitizer ran on a storage that holds a tagged and an empty value and no corrupted one
C6_Witness ==
  /\ last.op = "fix" /\ ~last.present
  /\ \E k \in DOMAIN localStorage : Tagged(localStorage[k])
  /\ \E k \in DOMAIN localStorage : localStorage[k] = <<>>
  /\ \E k \in DOMAIN localStorage : ~IsImportantKey(localStorage, k)

\* the preserve-set of a storage: keys matching an allowlist pattern or
\* holding a tagged value
PreserveSet(ls) ==
  {k \in DOMAIN ls :
     \/ k \in {"currentUser", "isLoggedIn", "authToken", "USERS_COLLECTION_KEY"}
     \/ \E p \in {"_current_user", "_users", "_student_", "_certificates", "_disability_id"} : Includes(k, p)
     \/ Tagged(ls[k])}

C8_SanitizerKeepsStudents ==
  [][(last'.op = "fix" /\ hasCorruptedData(localStorage)
        /\ "u1_students" \in DOMAIN localStorage
        /\ JSONParse(localStorage["u1_students"]).ok)
       => /\ "u1_students" \in DOMAIN localStorage'
          /\ localStorage'["u1_students"] = localStorage["u1_students"]
          /\ ~hasCorruptedData(localStorage')]_vars

\* getSharedData().students of the persisted snapshot, [] when it has none
SnapshotStudents(ls) == Collection(getSharedData(ls).ret, K_students).a

\* the collection holds an entry equal to e
Contains(a, e) == \E i \in 1..Len(a) : a[i] = e

\* the clock readings a caller may pass to checkForUpdates
CheckTimes == -1..MaxTime

C10_CrossConsumer ==
  [][(last.op = "addStudent" /\ last.written /\ last'.op = "poll" /\ last'.consumer # last.consumer)
       => /\ last'.ret = Bool(TRUE)
          /\ Contains(students'[last'.consumer].a, last.value)]_vars

\* the teachers persisted under the logged-in user's own teachers key
OwnTeachers(ls, userId) ==
  Collection(Obj(<<K_teachers>>, <<getStorageItem(ls, TEACHERS_STORAGE_KEY, userId, Arr(<<>>)).ret>>),
             K_teachers).a

\* C11: every load by a repository instance reflects the successful mutations
\* the instance made before: the load that forceRefresh triggers right after a
\* stored addStudent shows the new student and after a stored deleteStudent
\* no longer shows the deleted one, and a teacher the instance holds and has
\* persisted with addTeacher is still in its teachers after the load.
C11_ReadYourWrites ==
  [][(last'.op = "load" /\ last'.consumer = Repository) =>
       /\ (last.op = "addStudent" /\ last.consumer = Repository /\ last.written)
            => Contains(students'[Repository].a, last.value)
       /\ (last.op = "deleteStudent" /\ last.consumer = Repository /\ last.written)
            => ~Contains(students'[Repository].a, last.value)
       /\ \A i \in 1..Len(teachers[Repository].a) :
            Contains(OwnTeachers(localStorage, user), teachers[Repository].a[i])
              => Contains(teachers'[Repository].a, teachers[Repository].a[i])]_vars

\* C12: deleteTeacher(T) leaves no student of the instance assigned to T and
\* leaves the students of other teachers as they were; when its writes were
\* stored, the load that follows still shows no student assigned to T.
C12_CascadeDelete ==
  [][/\ (last'.op = "deleteTeacher" /\ last'.consumer = Repository) =>
          /\ Len(students'[Repository].a) = Len(students[Repository].a)
          /\ \A i \in 1..Len(students[Repository].a) :
               IF Prop(students[Repository].a[i], K_teacherAssigned) = last'.value
               THEN Prop(students'[Repository].a[i], K_teacherAssigned) = Undef
               ELSE students'[Repository].a[i] = students[Repository].a[i]
     /\ (/\ last.op = "deleteTeacher" /\ last.consumer = Repository /\ last.written
         /\ last'.op = "load" /\ last'.consumer = Repository) =>
          \A i \in 1..Len(students'[Repository].a) :
            Prop(students'[Repository].a[i], K_teacherAssigned) # last.value]_vars

\* the change log persisted under the shared owner, as a consumer reads it
PersistedLog(ls) ==
  Collection(Obj(<<K_data>>, <<getStorageItem(ls, UPDATES_STORAGE_KEY, SHARED, Arr(<<>>)).ret>>), K_data).a

\* C13: an event of the persisted change log is still in the persisted log,
\* with the same fields, after every step of every consumer.
C13_AppendOnlyLog ==
  [][\A i \in 1..Len(PersistedLog(localStorage)) :
       Contains(PersistedLog(localStorage'), PersistedLog(localStorage)[i])]_vars

\* the number of times an effect is in a sequence of effects that have run
RECURSIVE Runs(_, _)
Runs(effects, e) ==
  IF effects = <<>> THEN 0 ELSE (IF Head(effects) = e THEN 1 ELSE 0) + Runs(Tail(effects), e)

\* C14: the sanitizer runs at most once, and every other step of the
\* application (the initial session read, login, logout, the loads and saves
\* of a repository) happens after its one run.
C14_SanitizerFirst ==
  [][/\ Runs(ran', "fixStorageIssues") <= 1
     /\ last'.op # "fix" => Runs(ran, "fixStorageIssues") = 1]_vars

\* the sanitizer ran, then the session was restored from the storage, and a
\* repository has mounted and loaded
C14_Witness ==
  /\ ran = <<"fixStorageIssues", "checkInitialUser">>
  /\ user = ADMIN_ID
  /\ mounted[Repository]
  /\ FullKey(USER_STORAGE_KEY, SYSTEM_USER_ID) \in DOMAIN localStorage

\* C15: decoding what compressData gives for a value returns a value equal to
\* the one encoded (the JSON text of a value holds no sentinel character).
C15_CodecRoundTrip ==
  last.op = "decompress" => last.ret = last.value

\* a value whose text has a run of more than one full group, and one whose
\* text ends in a group, were encoded and decoded
C15_Witness ==
  /\ last.op = "decompress"
  /\ last.value \in {RunString(2 * MAX_COUNT + 4), Nested(MaxRun)}
  /\ \E i \in 1..Len(last.item) : last.item[i] = NUL
  /\ last.ret = last.value

\* the last position of the maximal run of one character that starts at i
RunEndAt(text, i) ==
  CHOOSE j \in i..Len(text) :
    /\ \A k \in i..j : text[k] = text[i]
    /\ j = Len(text) \/ text[j + 1] # text[i]

\* the maximal runs of a text from position i on: character c, length n
RECURSIVE RunsFrom(_, _)
RunsFrom(text, i) ==
  IF i > Len(text) THEN <<>>
  ELSE <<[c |-> text[i], n |-> RunEndAt(text, i) - i + 1]>> \o RunsFrom(text, RunEndAt(text, i) + 1)

\* what the unit rule prescribes for a run of at most MAX_COUNT characters
UnitOf(run) == IF run.n <= 3 THEN Repeat(run.c, run.n) ELSE <<NUL, run.n, run.c>>

RECURSIVE UnitsOf(_)
UnitsOf(runs) == IF runs = <<>> THEN <<>> ELSE UnitOf(Head(runs)) \o UnitsOf(Tail(runs))

\* C16: when no maximal run of the JSON text is longer than 255, the output
\* of compressData is, run by run, the n literal characters of a run of at
\* most 3 and the one group <<sentinel, n, character>> of a longer run, and
\* such a group expands to n repeats of the character.
C16_UnitRule ==
  last.op = "compress" =>
    LET runs == RunsFrom(Stringify(last.value), 1)
    IN  (\A r \in 1..Len(runs) : runs[r].n <= MAX_COUNT) =>
          /\ last.item = UnitsOf(runs)
          /\ \A r \in 1..Len(runs) :
               runs[r].n > 3 => Expand(UnitOf(runs[r])) = Repeat(runs[r].c, runs[r].n)

\* a string of 255 letters was encoded as one group between its quotes
C16_Witness ==
  /\ last.op = "compress"
  /\ last.value = RunString(MAX_COUNT)
  /\ last.item = <<QUOTE, NUL, MAX_COUNT, Code("A"), QUOTE>>

\* the units of an encoded text from position i on, as they stand in it: a
\* group <<sentinel, n, c>> or one literal character
RECURSIVE UnitsFrom(_, _)
UnitsFrom(text, i) ==
  IF i > Len(text) THEN <<>>
  ELSE IF text[i] = NUL /\ i + 2 <= Len(text)
  THEN <<[c |-> text[i + 2], n |-> text[i + 1], group |-> TRUE]>> \o UnitsFrom(text, i + 3)
  ELSE <<[c |-> text[i], n |-> 1, group |-> FALSE]>> \o UnitsFrom(text, i + 1)

\* the text the units stand for, each unit taken as n literal characters
RECURSIVE Pieces(_)
Pieces(units) ==
  IF units = <<>> THEN <<>> ELSE Repeat(Head(units).c, Head(units).n) \o Pieces(Tail(units))

\* C17: every run length compressData emits lies in 4..255 and is the number
\* of characters the group stands for: the pieces, put together, are the
\* JSON text, so a run of more than 255 characters is split over several
\* units whose lengths sum to the length of the run.
C17_LongRuns ==
  last.op = "compress" =>
    LET units == UnitsFrom(last.item, 1)
    IN  /\ \A u \in 1..Len(units) : units[u].group => units[u].n \in 4..MAX_COUNT
        /\ Pieces(units) = Stringify(last.value)

\* a string of 514 letters was encoded as two full groups and a group of four
C17_Witness ==
  /\ last.op = "compress"
  /\ last.value = RunString(2 * MAX_COUNT + 4)
  /\ last.item = <<QUOTE, NUL, MAX_COUNT, Code("A"), NUL, MAX_COUNT, Code("A"), NUL, 4, Code("A"), QUOTE>>

\* C18: decompressData always returns: the value its expansion of the input
\* parses to, else the value the input itself parses to as JSON, else null.
C18_DecodeFailure ==
  last.op \in {"decompress", "decompressText"} =>
    /\ last.ret # Threw
    /\ last.ret = (IF JSONParse(Expand(last.item)).ok THEN JSONParse(Expand(last.item)).val
                   ELSE IF JSONParse(last.item).ok THEN JSONParse(last.item).val
                   ELSE Null)

\* a text whose expansion is not JSON, and which is not JSON itself, was
\* decoded to null
C18_Witness ==
  /\ last.op = "decompressText"
  /\ last.item = <<NUL, 5, Code("A")>>
  /\ Expand(last.item) = Repeat(Code("A"), 5)
  /\ last.ret = Null

\* C19: the text setStorageItem has stored carries the COMPRESSED: tag
\* exactly when the JSON text of the value is longer than half the maximum
\* size, and is the plain JSON text otherwise.
C19_Threshold ==
  (last.op = "set" /\ last.written) =>
    LET text == localStorage[FullKey(last.key, last.userId)]
    IN  /\ Tagged(text) <=> 2 * Len(Stringify(last.value)) > MAX_STORAGE_SIZE
        /\ ~Tagged(text) => text = Stringify(last.value)

\* a value whose JSON text is exactly half the maximum size was stored plain
\* while the other owner's value, one character longer, is stored tagged
C19_Witness ==
  /\ last.op = "set" /\ last.written
  /\ 2 * Len(Stringify(last.value)) = MAX_STORAGE_SIZE
  /\ localStorage[FullKey(last.key, last.userId)] = Stringify(last.value)
  /\ \E userId \in UserIds \ {last.userId} :
       /\ FullKey(last.key, userId) \in DOMAIN localStorage
       /\ Tagged(localStorage[FullKey(last.key, userId)])
       /\ Len(Expand(Payload(localStorage[FullKey(last.key, userId)]))) = (MAX_STORAGE_SIZE \div 2) + 1

\* the key and its text are in ls2 as they are in ls1
Kept(ls1, ls2, fullKey) ==
  fullKey \in DOMAIN ls1 => (fullKey \in DOMAIN ls2 /\ ls2[fullKey] = ls1[fullKey])

Timestamps(ups) == {Prop(ups.a[i], K_timestamp).n : i \in 1..Len(ups.a)}

\* C21: checkForUpdates(sinceTimestamp) returns true exactly when the log holds
\* an event whose timestamp is greater than sinceTimestamp: false for an empty
\* log and when the newest event was made at sinceTimestamp.
C21_CheckForUpdates ==
  last.op = "checkForUpdates" =>
    LET times == Timestamps(updates[last.consumer])
    IN  /\ last.ret \in {Bool(TRUE), Bool(FALSE)}
        /\ last.ret = Bool(TRUE) <=> \E t \in times : t > last.time
        /\ times = {} => last.ret = Bool(FALSE)
        /\ (times # {} /\ \A t \in times : t <= last.time) => last.ret = Bool(FALSE)

\* the log holds an event made at the reading that was passed, none after it,
\* and the answer is false
C21_Witness ==
  /\ last.op = "checkForUpdates" /\ last.ret = Bool(FALSE)
  /\ last.time \in Timestamps(updates[last.consumer])
  /\ \A t \in Timestamps(updates[last.consumer]) : t <= last.time

\* the collection of an entity type in the persisted snapshot, and the other one
Persisted(ls, type) ==
  Collection(getSharedData(ls).ret, IF type = "student" THEN K_students ELSE K_teachers).a
PersistedOther(ls, type) ==
  Collection(getSharedData(ls).ret, IF type = "student" THEN K_teachers ELSE K_students).a

\* the entries of a collection whose id is not id
Without(a, id) == SelectSeq(a, LAMBDA e : Prop(e, K_id) # id)

\* m has the properties of p, and those of e that p does not have
Merged(m, e, p) ==
  LET keys(o) == {o.k[i] : i \in 1..Len(o.k)}
  IN  /\ keys(m) = keys(e) \cup keys(p)
      /\ \A key \in keys(m) : Prop(m, key) = IF key \in keys(p) THEN Prop(p, key) ELSE Prop(e, key)

DistinctIds(a) == \A i, j \in 1..Len(a) : i # j => Prop(a[i], K_id) # Prop(a[j], K_id)

\* C23: the events of the change log, in the updates state of a component
\* and in the persisted log, have pairwise distinct ids after every sequence
\* of recordUpdate calls.
C23_UniqueEventIds ==
  /\ \A c \in Consumers : DistinctIds(updates[c].a)
  /\ DistinctIds(PersistedLog(localStorage))

\* C24: no two students of a students collection and no two teachers of a
\* teachers collection have the same id, in the state of every repository
\* instance and in the persisted snapshot, after every sequence of additions,
\* updates and deletions.
C24_UniqueEntityIds ==
  /\ \A c \in Consumers : DistinctIds(students[c].a) /\ DistinctIds(teachers[c].a)
  /\ DistinctIds(Persisted(localStorage, "student"))
  /\ DistinctIds(Persisted(localStorage, "teacher"))

\* the persisted text of the snapshot, none when the key is absent
SnapshotText(ls) ==
  IF FullKey(SHARED_DATA_KEY, SHARED) \in DOMAIN ls
  THEN <<ls[FullKey(SHARED_DATA_KEY, SHARED)]>>
  ELSE <<>>

\* the operations that call recordUpdate
Recording == {"recordUpdate", "addStudent", "updateStudent", "deleteStudent"}

\* C25: the persisted snapshot is changed by recordUpdate only: a step that is
\* no call of recordUpdate (a mount, a load, a save of the log, a poll tick, a
\* read) leaves the stored snapshot as it was.
C25_SingleWriter ==
  [][SnapshotText(localStorage') # SnapshotText(localStorage) => last'.op \in Recording]_vars

\* C26: get, set, remove, has, clearAll, dumpAll and the sanitizer return
\* normally whatever the stored texts are and whichever calls of the host
\* storage throw: get with a value, has and the sanitizer with a boolean,
\* dumpAll with an object, the others with nothing; no call throws.
C26_NoEscape ==
  last.op \in {"get", "set", "remove", "has", "clear", "dump", "fix"} =>
    /\ ~last.threw
    /\ last.ret # Rejected
    /\ last.op \in {"has", "fix"} => last.ret \in {Bool(TRUE), Bool(FALSE)}
    /\ last.op = "dump" => last.ret.t = "obj"
    /\ last.op \in {"set", "remove", "clear"} => last.ret = Undef

\* a get found every call of the host throwing and returned the fallback
C26_Witness ==
  /\ last.op = "get" /\ last.broken = Primitives
  /\ ~last.threw /\ last.ret = Fallback
  /\ FullKey(last.key, last.userId) \in DOMAIN localStorage

\* C27: a consumer has at most one live poll interval, a consumer that is
\* torn down or whose user is logged out has none, and a poll tick runs only
\* for a mounted consumer of a logged-in user.
C27_TimersCleared ==
  [][/\ \A c \in Consumers :
          /\ intervals'[c] <= 1
          /\ (~mounted'[c] \/ user' = NoUser) => intervals'[c] = 0
     /\ last'.op = "poll" => (mounted[last'.consumer] /\ user # NoUser)]_vars

\* a consumer was torn down and has no interval, the other still has its one
C27_Witness ==
  /\ last.op = "unmount"
  /\ intervals[last.consumer] = 0
  /\ \E c \in Consumers \ {last.consumer} : mounted[c] /\ intervals[c] = 1

\* C28: the snapshot update and the log append of one recordUpdate are not
\* atomic: when a recordUpdate that creates an entity returns with its
\* snapshot write stored, the persisted snapshot already holds the entity
\* while the persisted log is still shorter than the log of the component
\* and lacks the event, until the save effect runs.
C28_TornState ==
  [][(last'.op = "recordUpdate" /\ last'.written /\ last'.action = "create") =>
       /\ Contains(Persisted(localStorage', last'.type), last'.value)
       /\ Len(PersistedLog(localStorage')) < Len(updates'[last'.consumer].a)
       /\ savePending'[last'.consumer]]_vars

\* the snapshot holds the student just recorded and the persisted log is empty
C28_Witness ==
  /\ last.op = "recordUpdate" /\ last.written /\ last.action = "create" /\ last.type = "student"
  /\ Contains(Persisted(localStorage, "student"), last.value)
  /\ PersistedLog(localStorage) = <<>>
  /\ Len(updates[last.consumer].a) = 1

\* the reading in the timestamp entry of a key, 0 (the oldest) when it has none
Stamp(ls, k) == IF (k \o "_timestamp") \in DOMAIN ls THEN ParseInt(ls[k \o "_timestamp"]) ELSE 0

\* the pass for last'.userId removed ceil(0.25 * n) of the n keys that start
\* with the owner and an underscore, none of them newer than a kept one, and
\* changed nothing else
EvictedOldest ==
  LET own == UserKeys(localStorage, last'.userId)
      removed == (DOMAIN localStorage) \ (DOMAIN localStorage')
      n == Cardinality(own)
  IN  /\ 4 * Cardinality(removed) >= n /\ 4 * Cardinality(removed) < n + 4
      /\ removed \subseteq own
      /\ \A r \in removed, k \in own \ removed : Stamp(localStorage, r) <= Stamp(localStorage, k)
      /\ \A k \in DOMAIN localStorage' : k \in DOMAIN localStorage /\ localStorage'[k] = localStorage[k]

C30_SanitizerRepairs ==
  [][(last'.op = "fix" /\ last'.ret = Bool(TRUE)) =>
       \A k \in DOMAIN localStorage' :
         \/ localStorage'[k] = <<>>
         \/ Tagged(localStorage'[k])
         \/ JSONParse(localStorage'[k]).ok]_vars

\* the entries AuthContext keeps for the system owner: the session and the
\* directory of registered users
SystemEntries == {FullKey("current_user", "system"), FullKey("users", "system")}

\* C31: whenever the sanitizer runs, with or without a corrupted entry, a
\* non-empty current_user entry and a non-empty users entry of the system
\* owner are in the storage afterwards with the values they had.
C31_SanitizerKeepsSession ==
  [][last'.op = "fix" =>
       \A k \in SystemEntries :
         (k \in DOMAIN localStorage /\ localStorage[k] # <<>>)
           => (k \in DOMAIN localStorage' /\ localStorage'[k] = localStorage[k])]_vars

\* the sanitizer found a corrupted entry and removed it; the session and the
\* users directory, both plain JSON, are still there
C31_Witness ==
  /\ last.op = "fix" /\ last.present
  /\ DOMAIN localStorage = SystemEntries
  /\ \A k \in SystemEntries : localStorage[k] = StoredText(NameShort) /\ ~Tagged(localStorage[k])

\* C32: when setStorageItem(k, o, v) drops the write, the first attempt and
\* the retry both failing on the quota, the value stored before under (k, o)
\* is still stored and getStorageItem(k, o, fallback) returns what it returned
\* before the call.
C32_FailedWriteKeepsOld ==
  [][(last'.op = "set" /\ last'.first = "quota" /\ last'.second = "quota") =>
       /\ Kept(localStorage, localStorage', FullKey(last'.key, last'.userId))
       /\ getStorageItem(localStorage', last'.key, last'.userId, Fallback).ret
            = getStorageItem(localStorage, last'.key, last'.userId, Fallback).ret]_vars

\* the logical key of a full key composed for the owner
LogicalKey(fullKey, userId) == SubSeq(fullKey, Len(userId) + 2, Len(fullKey))

\* C33: after setStorageItem(k, o, v) has stored v, getAllUserData(o) returns
\* a mapping that holds the logical key k with a value equal to v and holds
\* no entry of another owner: each of its names is a logical key of o.
C33_DumpReflectsOwner ==
  [][(/\ last.op = "set" /\ last'.op = "dump" /\ last'.userId = last.userId
      /\ last'.broken = {} /\ ~last'.threw
      /\ FullKey(last.key, last.userId) \in DOMAIN localStorage
      /\ localStorage[FullKey(last.key, last.userId)] = StoredText(NameShort))
       => /\ Prop(last'.ret, S(last.key)) = NameShort
          /\ \A i \in 1..Len(last'.ret.k) :
               \E fullKey \in UserKeys(localStorage, last.userId) :
                 last'.ret.k[i] = S(LogicalKey(fullKey, last.userId))]_vars

\* C34: over any interleaving of recordUpdate calls of the consumers of one
\* process the persisted snapshot is the initial one with the mutations of
\* the successful calls applied in call order: a successful call leaves the
\* snapshot it found with its mutation applied, and no step between two calls
\* changes the snapshot.
C34_NoLostUpdate ==
  [][IF last'.op = "recordUpdate"
     THEN last'.written =>
            getSharedData(localStorage').ret
              = ApplyUpdate(getSharedData(localStorage).ret, last'.type, last'.action, last'.value)
     ELSE getSharedData(localStorage').ret = getSharedData(localStorage).ret]_vars

\* the ids of the students a consumer holds
HeldIds(a) == {Prop(a[i], K_id) : i \in 1..Len(a)}

\* C35: updateStudent(id, data) with an id that no student of the collection
\* has returns null and deleteStudent(id) with such an id rejects, and both
\* leave the collection, the change log and the snapshot as they were; when a
\* student has the id, the result of updateStudent and the entry of the
\* collection keep that id, whatever id data carries.
C35_MissingEntity ==
  [][(last'.op \in {"updateStudent", "deleteStudent"}) =>
       LET c == last'.consumer
           before == students[c].a
           after == students'[c].a
       IN  IF last'.id \notin HeldIds(before)
           THEN /\ last'.ret = (IF last'.op = "updateStudent" THEN Null ELSE Rejected)
                /\ after = before
                /\ updates' = updates
                /\ PersistedLog(localStorage') = PersistedLog(localStorage)
                /\ getSharedData(localStorage').ret = getSharedData(localStorage).ret
           ELSE (last'.op = "updateStudent" /\ last'.ret # Null) =>
                  /\ Prop(last'.ret, K_id) = last'.id
                  /\ Len(after) = Len(before)
                  /\ \A i \in 1..Len(before) : Prop(after[i], K_id) = Prop(before[i], K_id)
                  /\ \E i \in 1..Len(after) : after[i] = last'.ret]_vars

\* a call for an id that no student has left the two students where they
\* were and recorded nothing
C35_Witness ==
  /\ last.op \in {"updateStudent", "deleteStudent"} /\ last.id = StrV(S("e9"))
  /\ last.ret \in {Null, Rejected}
  /\ Len(students[Repository].a) = 2
  /\ updates[Repository].a = <<>>

\* the storage key of a logical key of an owner: <ownerId>_<logicalKey>
Composed(key, userId) == userId \o "_" \o key

\* what getStorageItem and hasStorageItem return for the pair is what they
\* returned before the step
SameAnswers(key, userId) ==
  /\ Read(localStorage', key, userId) = Read(localStorage, key, userId)
  /\ hasStorageItem(localStorage', key, userId) = hasStorageItem(localStorage, key, userId)

\* C36 as stated: for all pairs (owner1, key1) # (owner2, key2) a
\* setStorageItem or removeStorageItem on (key1, owner1) never changes what
\* getStorageItem or hasStorageItem returns for (key2, owner2).
C36_Original ==
  [][last'.op \in {"set", "remove"} =>
       \A userId \in ClearOwners, key \in CollideKeys :
         <<userId, key>> # <<last'.userId, last'.key>> => SameAnswers(key, userId)]_vars

\* C36: for all pairs whose storage keys <owner>_<key> differ, a
\* removeStorageItem on (key1, owner1), and a setStorageItem on it whose first
\* write does not exceed the quota, never changes what getStorageItem or
\* hasStorageItem returns for (key2, owner2); a setStorageItem whose first
\* write exceeds the quota never changes it for a pair whose storage key does
\* not start with owner1 and an underscore.
C36_NoCollision ==
  [][last'.op \in {"set", "remove"} =>
       \A userId \in ClearOwners, key \in CollideKeys :
         Composed(key, userId) # Composed(last'.key, last'.userId) =>
           \/ SameAnswers(key, userId)
           \/ /\ last'.op = "set" /\ last'.first = "quota"
              /\ StartsWith(Composed(key, userId), last'.userId \o "_")]_vars

\* key x of owner u1 was removed and key x of owner u1_a, whose storage key
\* starts with u1 and an underscore as well, still has its value
C36_Witness ==
  /\ last.op = "remove" /\ last.key = "x" /\ last.userId = "u1"
  /\ ~hasStorageItem(localStorage, "x", "u1")
  /\ Read(localStorage, "x", "u1_a") = NameShort
  /\ Read(localStorage, "x", "u2") = NameShort

\* C37: a run of the sanitizer that follows another run changes no key and
\* no value, so two runs in a row leave the storage that one run leaves.
C37_SanitizerIdempotent ==
  [][(last.op = "fix" /\ last'.op = "fix") => localStorage' = localStorage]_vars

\* a run found a corrupted entry and left an allowlisted entry that is
\* corrupted next to one that parses: the next run finds corruption again
C37_Witness ==
  /\ last.op = "fix" /\ last.present
  /\ \E k \in DOMAIN localStorage :
       /\ localStorage[k] # <<>> /\ ~Tagged(localStorage[k]) /\ ~JSONParse(localStorage[k]).ok
  /\ \E k \in DOMAIN localStorage : JSONParse(localStorage[k]).ok

====
